---- MODULE Spec2Model ----
(***************************************************************************)
(* apidiff: a breaking-change detector for OpenAPI 3.0 documents.          *)
(*                                                                         *)
(* The diff engine (src/src/diff.rs) is a pure function from two documents *)
(* to a sequence of Change records.  Every layer of the engine is an       *)
(* operator below, computed as the code computes it; the specifications    *)
(* draw the two documents from bounded families and apply diff_specs.      *)
(*                                                                         *)
(* Encoding of the Rust data:                                              *)
(*   Option<T>       <<>> (None) or <<x>> (Some(x))                        *)
(*   IndexMap<K,V>   a sequence of <<k, v>> pairs with distinct keys, in   *)
(*                   insertion (document) order                            *)
(*   ReferenceOr<T>  [tag |-> "Item", item |-> x] or                       *)
(*                   [tag |-> "Reference", reference |-> "<string>"]       *)
(*   String          a TLA+ string; format! is string concatenation        *)
(*   HashMap/HashSet a set or function, iterated in the order `seed` gives *)
(***************************************************************************)
EXTENDS Integers, Sequences, FiniteSets, TLC

VARIABLES
    old,      \* the old document (OpenAPI)
    new,      \* the new document (OpenAPI)
    seed,     \* the process's hash randomness: the iteration order of its
              \* HashMaps and HashSets
    pc,       \* "start" before diff_specs is called, "done" after it returned,
              \* "again" before it is called once more;
              \* in the command-line program also "load_old", "load_new",
              \* "failed" and "exited"
    result,   \* the Diff that diff_specs returned (a sequence of Change)
    stack,    \* stepwise run of diff_schema: the chain of nested calls
    calls,    \* stepwise run of diff_schema: number of calls made so far
    cli,      \* the command line: the paths of the old and the new file
    fs,       \* the file system: what is behind each of the two paths
    reads,    \* the paths std::fs::read_to_string was called on, in order
    parses,   \* the parser calls made: <<path, format>>, in order
    error,    \* the Err that run returned to main, if any
    stdout,   \* the lines printed to standard output
    stderr,   \* the lines printed to standard error
    exit_code \* the exit code of the process once it has exited

\* What only the command-line program (main.rs, loader.rs) reads and writes
process == <<cli, fs, reads, parses, error, stdout, stderr, exit_code>>

vars == <<old, new, seed, pc, result, stack, calls, process>>

----------------------------------------------------------------------------
(* Option, IndexMap, iterator helpers *)

None == <<>>

Some(x) == <<x>>

IsSome(o) == o # <<>>

\* Option::and_then
AndThen(o, F(_)) == IF o = <<>> THEN <<>> ELSE F(o[1])

\* IndexMap::contains_key
ContainsKey(m, k) == \E i \in DOMAIN m : m[i][1] = k

\* IndexMap::get
Get(m, k) ==
    IF ContainsKey(m, k)
    THEN Some(m[CHOOSE i \in DOMAIN m : m[i][1] = k][2])
    ELSE None

\* IndexMap::keys, in insertion order
Keys(m) == [i \in DOMAIN m |-> m[i][1]]

\* slice::contains / Vec::contains
Contains(s, x) == \E i \in DOMAIN s : s[i] = x

\* Iterator::flat_map(..).collect(): the concatenation of a sequence of
\* sequences
RECURSIVE Flatten(_)
Flatten(ss) ==
    IF ss = <<>> THEN <<>> ELSE Head(ss) \o Flatten(Tail(ss))

\* Iterator::filter_map(..).collect() over a sequence of Options
FilterMap(os) == Flatten(os)

\* The elements of a sequence, as a set
Range(s) == {s[i] : i \in DOMAIN s}

\* All orderings of a finite set, as sequences without repetition
Perms(S) ==
    {p \in [1..Cardinality(S) -> S] : \A i, j \in DOMAIN p : p[i] = p[j] => i = j}

\* Iteration over a HashMap's keys or a HashSet: the members of S in the
\* order the hash randomness puts them
HashIter(S, order) == SelectSeq(order, LAMBDA k : k \in S)

\* str::strip_prefix
StripPrefix(s, prefix) ==
    IF Len(s) >= Len(prefix) /\ SubSeq(s, 1, Len(prefix)) = prefix
    THEN Some(SubSeq(s, Len(prefix) + 1, Len(s)))
    ELSE None

\* A reference string ends with "/" and the name
EndsWithName(reference, name) ==
    /\ Len(reference) > Len(name)
    /\ SubSeq(reference, Len(reference) - Len(name), Len(reference)) = "/" \o name

\* ReferenceOr::as_item
AsItem(r) == IF r.tag = "Item" THEN Some(r.item) ELSE None

Item(x) == [tag |-> "Item", item |-> x]

Ref(s) == [tag |-> "Reference", reference |-> s]

----------------------------------------------------------------------------
(* Change model: src/src/change.rs *)

Breaking == "Breaking"

NonBreaking == "NonBreaking"

LocationPath(path) == [tag |-> "Path", path |-> path]

LocationOperation(path, method) ==
    [tag |-> "Operation", path |-> path, method |-> method]

Change(severity, location, message) ==
    [severity |-> severity, location |-> location, message |-> message]

\* Direction of the schema being compared
Request == "Request"

Response == "Response"

----------------------------------------------------------------------------
(* Layer 7: schema comparison (diff.rs, "Layer 7: Schema comparison") *)

MAX_DEPTH == 10

MapSeq(s, F(_)) == [i \in DOMAIN s |-> F(s[i])]

\* the component lookup following an entry that is itself a reference to
\* another entry of the section
LookupTransitive(components, section, name) ==
    AndThen(AndThen(components, LAMBDA c : Get(c[section], name)),
        LAMBDA r :
            IF r.tag = "Item"
            THEN Some(r.item)
            ELSE LET c == components[1][section]
                     target == {i \in DOMAIN c :
                                   /\ EndsWithName(r.reference, c[i][1])
                                   /\ c[i][2].tag = "Item"}
                 IN IF target = {} THEN None
                    ELSE Some(c[CHOOSE i \in target : TRUE][2].item))

\* The component lookup shared by every resolver:
\* components.as_ref().and_then(|c| c.<section>.get(name)).and_then(|r| r.as_item())
Lookup(components, section, name) ==
    AndThen(AndThen(components, LAMBDA c : Get(c[section], name)),
            LAMBDA r : AsItem(r))

resolve_schema(r, components) ==
    IF r.tag = "Item"
    THEN Some(r.item)
    ELSE AndThen(StripPrefix(r.reference, "#/components/schemas/"),
                 LAMBDA name : Lookup(components, "schemas", name))

resolve_box_schema(r, components) ==
    IF r.tag = "Item"
    THEN Some(r.item)
    ELSE AndThen(StripPrefix(r.reference, "#/components/schemas/"),
                 LAMBDA name : Lookup(components, "schemas", name))

type_name(kind) ==
    CASE kind.tag = "Type" ->
            (CASE kind.type.tag = "String"  -> "string"
               [] kind.type.tag = "Number"  -> "number"
               [] kind.type.tag = "Integer" -> "integer"
               [] kind.type.tag = "Object"  -> "object"
               [] kind.type.tag = "Array"   -> "array"
               [] kind.type.tag = "Boolean" -> "boolean")
      [] kind.tag = "OneOf" -> "oneOf"
      [] kind.tag = "AllOf" -> "allOf"
      [] kind.tag = "AnyOf" -> "anyOf"
      [] kind.tag = "Not"   -> "not"
      [] kind.tag = "Any"   -> "any"

\* the severity of an added enum value ignoring the direction
enum_added_severity_lenient(direction) == NonBreaking

\* match direction { Response => Breaking, Request => NonBreaking } of an
\* added enum value
enum_added_severity(direction) ==
    IF direction = Response THEN Breaking ELSE NonBreaking

diff_string_enum(loc, context, o, n, direction) ==
    IF o.enumeration = <<>> /\ n.enumeration = <<>>
    THEN <<>>
    ELSE
        LET old_values == Range(FilterMap(o.enumeration))
            new_values == Range(FilterMap(n.enumeration))
            removed == FilterMap(MapSeq(HashIter(old_values, seed.enums),
                LAMBDA val :
                    IF val \in new_values
                    THEN None
                    ELSE Some(Change(Breaking, loc,
                        context \o ": enum value '" \o val \o "' removed"))))
            added == FilterMap(MapSeq(HashIter(new_values, seed.enums),
                LAMBDA val :
                    IF val \in old_values
                    THEN None
                    ELSE Some(Change(enum_added_severity(direction), loc,
                        context \o ": enum value '" \o val \o "' added"))))
        IN removed \o added

RECURSIVE diff_schema(_, _, _, _, _, _, _, _)
RECURSIVE diff_object(_, _, _, _, _, _, _, _)

\* the severity of an added property ignoring the required list
added_severity_ignoring_required(direction, is_required) == NonBreaking

\* match direction { Request if is_required => Breaking, _ => NonBreaking }
\* of an added property
added_severity(direction, is_required) ==
    IF direction = Request /\ is_required THEN Breaking ELSE NonBreaking

\* removed.chain(added).chain(became_required).chain(became_optional): what
\* the object level itself emits
diff_object_own(loc, context, o, n, direction) ==
    LET removed == FilterMap(MapSeq(Keys(o.properties),
            LAMBDA prop_name :
                IF ContainsKey(n.properties, prop_name)
                THEN None
                ELSE Some(Change(
                    IF direction = Response THEN Breaking ELSE NonBreaking,
                    loc,
                    context \o ": property '" \o prop_name \o "' removed"))))
        added == FilterMap(MapSeq(Keys(n.properties),
            LAMBDA prop_name :
                IF ContainsKey(o.properties, prop_name)
                THEN None
                ELSE LET is_required == Contains(n.required, prop_name)
                     IN Some(Change(added_severity(direction, is_required), loc,
                        context \o ": property '" \o prop_name \o "' added"))))
        became_required == FilterMap(MapSeq(n.required,
            LAMBDA prop_name :
                IF ~Contains(o.required, prop_name)
                   /\ ContainsKey(o.properties, prop_name)
                THEN Some(Change(
                    IF direction = Request THEN Breaking ELSE NonBreaking,
                    loc,
                    context \o ": property '" \o prop_name \o "' became required"))
                ELSE None))
        became_optional == FilterMap(MapSeq(o.required,
            LAMBDA prop_name :
                IF ~Contains(n.required, prop_name)
                   /\ ContainsKey(n.properties, prop_name)
                THEN Some(Change(
                    IF direction = Request THEN NonBreaking ELSE Breaking,
                    loc,
                    context \o ": property '" \o prop_name \o "' became optional"))
                ELSE None))
    IN removed \o added \o became_required \o became_optional

\* The arguments of the nested diff_schema calls of diff_object ("recursed"),
\* in order: one per property present on both sides whose schema resolves on
\* both sides
object_children(context, o, n, old_components, new_components, depth) ==
    FilterMap(MapSeq(o.properties,
        LAMBDA kv :
            LET prop_name == kv[1]
                new_ref == Get(n.properties, prop_name)
            IN  IF new_ref = None
                THEN None
                ELSE LET old_schema == resolve_box_schema(kv[2], old_components)
                         new_schema == resolve_box_schema(new_ref[1], new_components)
                     IN IF IsSome(old_schema) /\ IsSome(new_schema)
                        THEN Some([context |-> context \o "." \o prop_name,
                                   old |-> old_schema[1],
                                   new |-> new_schema[1],
                                   depth |-> depth + 1])
                        ELSE None))

diff_object(loc, context, o, n, direction, old_components, new_components, depth) ==
    LET recursed == Flatten(MapSeq(
            object_children(context, o, n, old_components, new_components, depth),
            LAMBDA c : diff_schema(loc, c.context, c.old, c.new, direction,
                                   old_components, new_components, c.depth)))
    IN diff_object_own(loc, context, o, n, direction) \o recursed

\* The arguments of the nested diff_schema call of the array arm of
\* diff_schema, if it makes one
array_children(context, old_arr, new_arr, old_components, new_components, depth) ==
    LET old_items == AndThen(old_arr.items,
                             LAMBDA r : resolve_box_schema(r, old_components))
        new_items == AndThen(new_arr.items,
                             LAMBDA r : resolve_box_schema(r, new_components))
    IN  IF IsSome(old_items) /\ IsSome(new_items)
        THEN <<[context |-> context \o "[]",
                old |-> old_items[1],
                new |-> new_items[1],
                depth |-> depth + 1]>>
        ELSE <<>>

\* the depth guard one level early
depth_guard_early(depth) == depth >= MAX_DEPTH - 1

\* the depth guard with > for >=
depth_guard_off_by_one(depth) == depth > MAX_DEPTH

\* if depth >= MAX_DEPTH { return vec![]; }
depth_guard(depth) == depth >= MAX_DEPTH

\* the early return on differing type names with the other severity
type_changed_non_breaking(loc, context, old_type, new_type) ==
    <<Change(NonBreaking, loc,
             context \o ": type changed from " \o old_type \o " to " \o new_type)>>

\* the early return of diff_schema on differing type names
type_changed(loc, context, old_type, new_type) ==
    <<Change(Breaking, loc,
             context \o ": type changed from " \o old_type \o " to " \o new_type)>>

diff_schema(loc, context, o, n, direction, old_components, new_components, depth) ==
    IF depth_guard(depth)
    THEN <<>>
    ELSE
        LET old_type == type_name(o.schema_kind)
            new_type == type_name(n.schema_kind)
        IN  IF old_type # new_type
            THEN type_changed(loc, context, old_type, new_type)
            ELSE IF old_type = "object"
            THEN diff_object(loc, context, o.schema_kind.type, n.schema_kind.type,
                             direction, old_components, new_components, depth)
            ELSE IF old_type = "array"
            THEN Flatten(MapSeq(
                    array_children(context, o.schema_kind.type, n.schema_kind.type,
                                   old_components, new_components, depth),
                    LAMBDA c : diff_schema(loc, c.context, c.old, c.new, direction,
                                           old_components, new_components, c.depth)))
            ELSE IF old_type = "string"
            THEN diff_string_enum(loc, context, o.schema_kind.type,
                                  n.schema_kind.type, direction)
            ELSE <<>>

----------------------------------------------------------------------------
(* Content: shared between request body and responses *)

diff_content(loc, label, old_content, new_content, direction, old_spec, new_spec) ==
    LET existing == Flatten(MapSeq(old_content,
            LAMBDA kv :
                LET media == kv[1]
                    old_mt == kv[2]
                    new_mt == Get(new_content, media)
                IN  IF new_mt = None
                    THEN <<Change(Breaking, loc,
                            label \o ": media type '" \o media \o "' removed")>>
                    ELSE
                        LET old_schema == AndThen(old_mt.schema,
                                LAMBDA r : resolve_schema(r, old_spec.components))
                            new_schema == AndThen(new_mt[1].schema,
                                LAMBDA r : resolve_schema(r, new_spec.components))
                        IN  IF IsSome(old_schema) /\ IsSome(new_schema)
                            THEN diff_schema(loc, label \o " " \o media,
                                             old_schema[1], new_schema[1], direction,
                                             old_spec.components, new_spec.components, 0)
                            ELSE <<>>))
        added == FilterMap(MapSeq(Keys(new_content),
            LAMBDA media :
                IF ContainsKey(old_content, media)
                THEN None
                ELSE Some(Change(NonBreaking, loc,
                        label \o ": media type '" \o media \o "' added"))))
    IN existing \o added

----------------------------------------------------------------------------
(* Layer 6: responses *)

resolve_response(r, spec) ==
    IF r.tag = "Item"
    THEN Some(r.item)
    ELSE AndThen(StripPrefix(r.reference, "#/components/responses/"),
                 LAMBDA name : Lookup(spec.components, "responses", name))

\* status_code_str rendering a range by its digit alone
status_code_str_digit(sc) ==
    IF sc.tag = "Code" THEN ToString(sc.code) ELSE ToString(sc.range)

status_code_str(sc) ==
    IF sc.tag = "Code" THEN ToString(sc.code) ELSE ToString(sc.range) \o "XX"

diff_responses(loc, o, n, old_spec, new_spec) ==
    LET existing == Flatten(MapSeq(o.responses,
            LAMBDA kv :
                LET code == kv[1]
                    new_ref == Get(n.responses, code)
                IN  IF new_ref = None
                    THEN <<Change(Breaking, loc,
                            "response '" \o status_code_str(code) \o "' removed")>>
                    ELSE
                        LET old_resp == resolve_response(kv[2], old_spec)
                            new_resp == resolve_response(new_ref[1], new_spec)
                        IN  IF IsSome(old_resp) /\ IsSome(new_resp)
                            THEN diff_content(loc,
                                    "response '" \o status_code_str(code) \o "'",
                                    old_resp[1].content, new_resp[1].content,
                                    Response, old_spec, new_spec)
                            ELSE <<>>))
        added == FilterMap(MapSeq(Keys(n.responses),
            LAMBDA code :
                IF ContainsKey(o.responses, code)
                THEN None
                ELSE Some(Change(NonBreaking, loc,
                        "response '" \o status_code_str(code) \o "' added"))))
    IN existing \o added

----------------------------------------------------------------------------
(* Layer 5: request body *)

resolve_request_body(r, spec) ==
    IF r.tag = "Item"
    THEN Some(r.item)
    ELSE AndThen(StripPrefix(r.reference, "#/components/requestBodies/"),
                 LAMBDA name : Lookup(spec.components, "request_bodies", name))

\* the became-required test without its !old_rb.required conjunct
body_became_required_new_only(old_rb, new_rb) == new_rb.required

\* if !old_rb.required && new_rb.required
body_became_required(old_rb, new_rb) == ~old_rb.required /\ new_rb.required

\* the severity of an added body with the two outcomes exchanged
body_added_severity_inverted(rb) == IF rb.required THEN NonBreaking ELSE Breaking

\* let sev = if rb.required { Breaking } else { NonBreaking }
body_added_severity(rb) == IF rb.required THEN Breaking ELSE NonBreaking

diff_request_body(loc, o, n, old_spec, new_spec) ==
    LET old_rb == AndThen(o, LAMBDA r : resolve_request_body(r, old_spec))
        new_rb == AndThen(n, LAMBDA r : resolve_request_body(r, new_spec))
    IN  CASE old_rb = None /\ new_rb # None ->
                <<Change(body_added_severity(new_rb[1]),
                         loc, "request body added")>>
          [] old_rb # None /\ new_rb = None ->
                <<Change(Breaking, loc, "request body removed")>>
          [] old_rb # None /\ new_rb # None ->
                LET required ==
                        IF body_became_required(old_rb[1], new_rb[1])
                        THEN Some(Change(Breaking, loc,
                                         "request body became required"))
                        ELSE None
                    content == diff_content(loc, "request body",
                                   old_rb[1].content, new_rb[1].content,
                                   Request, old_spec, new_spec)
                IN required \o content
          [] old_rb = None /\ new_rb = None -> <<>>

----------------------------------------------------------------------------
(* Layer 4: parameters *)

ParamKey(name, location) == [name |-> name, location |-> location]

\* param_key that leaves the location out of the identity
param_key_name_only(p) == ParamKey(p.parameter_data.name, "query")

param_key(p) ==
    LET data == p.parameter_data
        location == CASE p.variant = "Query"  -> "query"
                      [] p.variant = "Header" -> "header"
                      [] p.variant = "Path"   -> "path"
                      [] p.variant = "Cookie" -> "cookie"
    IN ParamKey(data.name, location)

resolve_param(r, components) ==
    IF r.tag = "Item"
    THEN Some(r.item)
    ELSE AndThen(StripPrefix(r.reference, "#/components/parameters/"),
                 LAMBDA name : Lookup(components, "parameters", name))

\* params.iter().filter_map(|r| resolve_param(r, components))
\*       .map(|p| (param_key(p), p)).collect::<HashMap<_, _>>():
\* a later entry with an equal key replaces the earlier one
param_map(params, components) ==
    LET resolved == FilterMap(MapSeq(params,
                        LAMBDA r : resolve_param(r, components)))
        keys == {param_key(resolved[i]) : i \in DOMAIN resolved}
        last(k) == CHOOSE i \in DOMAIN resolved :
                      /\ param_key(resolved[i]) = k
                      /\ \A j \in DOMAIN resolved :
                            param_key(resolved[j]) = k => j <= i
    IN [k \in keys |-> resolved[last(k)]]

\* diff_parameter_type comparing the whole schemas instead of their type names
diff_parameter_type_deep(loc, name, old_format, new_format) ==
    LET old_schema == IF old_format.tag = "Schema"
                      THEN AsItem(old_format.schema) ELSE None
        new_schema == IF new_format.tag = "Schema"
                      THEN AsItem(new_format.schema) ELSE None
    IN  IF /\ IsSome(old_schema)
           /\ IsSome(new_schema)
           /\ old_schema[1].schema_kind # new_schema[1].schema_kind
        THEN <<Change(Breaking, loc,
                "parameter '" \o name \o "' type changed from "
                    \o type_name(old_schema[1].schema_kind) \o " to "
                    \o type_name(new_schema[1].schema_kind))>>
        ELSE <<>>

diff_parameter_type(loc, name, old_format, new_format) ==
    LET old_schema == IF old_format.tag = "Schema"
                      THEN AsItem(old_format.schema) ELSE None
        new_schema == IF new_format.tag = "Schema"
                      THEN AsItem(new_format.schema) ELSE None
    IN  IF /\ IsSome(old_schema)
           /\ IsSome(new_schema)
           /\ type_name(old_schema[1].schema_kind) # type_name(new_schema[1].schema_kind)
        THEN <<Change(Breaking, loc,
                "parameter '" \o name \o "' type changed from "
                    \o type_name(old_schema[1].schema_kind) \o " to "
                    \o type_name(new_schema[1].schema_kind))>>
        ELSE <<>>

diff_parameters(loc, old_params, new_params, old_components, new_components) ==
    LET old_map == param_map(old_params, old_components)
        new_map == param_map(new_params, new_components)
        existing == Flatten(MapSeq(HashIter(DOMAIN old_map, seed.params),
            LAMBDA key :
                LET old_data == old_map[key].parameter_data
                IN  IF key \notin DOMAIN new_map
                    THEN <<Change(
                            IF old_data.required THEN Breaking ELSE NonBreaking,
                            loc,
                            key.location \o " parameter '" \o key.name \o "' removed")>>
                    ELSE
                        LET new_data == new_map[key].parameter_data
                        IN  (IF ~old_data.required /\ new_data.required
                             THEN <<Change(Breaking, loc,
                                    "parameter '" \o key.name \o "' became required")>>
                             ELSE <<>>)
                            \o
                            (IF old_data.required /\ ~new_data.required
                             THEN <<Change(NonBreaking, loc,
                                    "parameter '" \o key.name \o "' became optional")>>
                             ELSE <<>>)
                            \o
                            diff_parameter_type(loc, key.name,
                                                old_data.format, new_data.format)))
        added == FilterMap(MapSeq(HashIter(DOMAIN new_map, seed.params),
            LAMBDA key :
                IF key \in DOMAIN old_map
                THEN None
                ELSE Some(Change(
                        IF new_map[key].parameter_data.required
                        THEN Breaking ELSE NonBreaking,
                        loc,
                        key.location \o " parameter '" \o key.name \o "' added"))))
    IN existing \o added

----------------------------------------------------------------------------
(* Layer 3: operation *)

\* diff_operation with the deprecation change chained first
diff_operation_deprecated_first(loc, o, n, old_spec, new_spec) ==
    LET params == diff_parameters(loc, o.parameters, n.parameters,
                                  old_spec.components, new_spec.components)
        body == diff_request_body(loc, o.request_body, n.request_body,
                                  old_spec, new_spec)
        responses == diff_responses(loc, o.responses, n.responses,
                                    old_spec, new_spec)
        deprecated == IF ~o.deprecated /\ n.deprecated
                      THEN Some(Change(NonBreaking, loc, "operation deprecated"))
                      ELSE None
    IN deprecated \o params \o body \o responses

diff_operation(loc, o, n, old_spec, new_spec) ==
    LET params == diff_parameters(loc, o.parameters, n.parameters,
                                  old_spec.components, new_spec.components)
        body == diff_request_body(loc, o.request_body, n.request_body,
                                  old_spec, new_spec)
        responses == diff_responses(loc, o.responses, n.responses,
                                    old_spec, new_spec)
        deprecated == IF ~o.deprecated /\ n.deprecated
                      THEN Some(Change(NonBreaking, loc, "operation deprecated"))
                      ELSE None
    IN params \o body \o responses \o deprecated

----------------------------------------------------------------------------
(* Layer 2: path item (operations per HTTP method) *)

\* operations with the labels of two slots exchanged
operations_swapped(item) ==
    << <<"GET", item.get>>,
       <<"POST", item.put>>,
       <<"PUT", item.post>>,
       <<"DELETE", item.delete>>,
       <<"OPTIONS", item.options>>,
       <<"HEAD", item.head>>,
       <<"PATCH", item.patch>>,
       <<"TRACE", item.trace>> >>

operations(item) ==
    << <<"GET", item.get>>,
       <<"PUT", item.put>>,
       <<"POST", item.post>>,
       <<"DELETE", item.delete>>,
       <<"OPTIONS", item.options>>,
       <<"HEAD", item.head>>,
       <<"PATCH", item.patch>>,
       <<"TRACE", item.trace>> >>

\* diff_path_item locating a removed or added operation at the path alone
diff_path_item_at_path(path, o, n, old_spec, new_spec) ==
    LET old_ops == operations(o)
        new_ops == operations(n)
    IN Flatten([i \in DOMAIN old_ops |->
        LET method == old_ops[i][1]
            old_op == old_ops[i][2]
            new_op == new_ops[i][2]
            location == LocationOperation(path, method)
        IN  CASE old_op # None /\ new_op = None ->
                    <<Change(Breaking, LocationPath(path), "operation removed")>>
              [] old_op = None /\ new_op # None ->
                    <<Change(NonBreaking, LocationPath(path), "operation added")>>
              [] old_op # None /\ new_op # None ->
                    diff_operation(location, old_op[1], new_op[1],
                                   old_spec, new_spec)
              [] old_op = None /\ new_op = None -> <<>>])

diff_path_item(path, o, n, old_spec, new_spec) ==
    LET old_ops == operations(o)
        new_ops == operations(n)
    IN Flatten([i \in DOMAIN old_ops |->
        LET method == old_ops[i][1]
            old_op == old_ops[i][2]
            new_op == new_ops[i][2]
            location == LocationOperation(path, method)
        IN  CASE old_op # None /\ new_op = None ->
                    <<Change(Breaking, location, "operation removed")>>
              [] old_op = None /\ new_op # None ->
                    <<Change(NonBreaking, location, "operation added")>>
              [] old_op # None /\ new_op # None ->
                    diff_operation(location, old_op[1], new_op[1],
                                   old_spec, new_spec)
              [] old_op = None /\ new_op = None -> <<>>])

----------------------------------------------------------------------------
(* Layer 1: paths *)

\* diff_paths with the severity of an added endpoint copied from the removed arm
diff_paths_added_breaking(o, n) ==
    LET removed == FilterMap(MapSeq(Keys(o.paths.paths),
            LAMBDA path :
                IF ContainsKey(n.paths.paths, path)
                THEN None
                ELSE Some(Change(Breaking, LocationPath(path),
                                 "endpoint removed"))))
        added == FilterMap(MapSeq(Keys(n.paths.paths),
            LAMBDA path :
                IF ContainsKey(o.paths.paths, path)
                THEN None
                ELSE Some(Change(Breaking, LocationPath(path),
                                 "endpoint added"))))
        shared == Flatten(MapSeq(o.paths.paths,
            LAMBDA kv :
                LET path == kv[1]
                    new_ref == Get(n.paths.paths, path)
                IN  IF new_ref = None
                    THEN <<>>
                    ELSE LET old_item == AsItem(kv[2])
                             new_item == AsItem(new_ref[1])
                         IN IF IsSome(old_item) /\ IsSome(new_item)
                            THEN diff_path_item(path, old_item[1], new_item[1], o, n)
                            ELSE <<>>))
    IN removed \o added \o shared

diff_paths(o, n) ==
    LET removed == FilterMap(MapSeq(Keys(o.paths.paths),
            LAMBDA path :
                IF ContainsKey(n.paths.paths, path)
                THEN None
                ELSE Some(Change(Breaking, LocationPath(path),
                                 "endpoint removed"))))
        added == FilterMap(MapSeq(Keys(n.paths.paths),
            LAMBDA path :
                IF ContainsKey(o.paths.paths, path)
                THEN None
                ELSE Some(Change(NonBreaking, LocationPath(path),
                                 "endpoint added"))))
        shared == Flatten(MapSeq(o.paths.paths,
            LAMBDA kv :
                LET path == kv[1]
                    new_ref == Get(n.paths.paths, path)
                IN  IF new_ref = None
                    THEN <<>>
                    ELSE LET old_item == AsItem(kv[2])
                             new_item == AsItem(new_ref[1])
                         IN IF IsSome(old_item) /\ IsSome(new_item)
                            THEN diff_path_item(path, old_item[1], new_item[1], o, n)
                            ELSE <<>>))
    IN removed \o added \o shared

\* Compare two OpenAPI specs and return a list of changes.
diff_specs(o, n) == diff_paths(o, n)

----------------------------------------------------------------------------
(* The document tree the engine reads (the openapiv3 types diff.rs imports), *)
(* with the fields the engine uses                                          *)

Schema(kind) == [schema_kind |-> kind]

StringType(enumeration) ==
    Schema([tag |-> "Type", type |-> [tag |-> "String", enumeration |-> enumeration]])

ObjectType(properties, required) ==
    Schema([tag |-> "Type",
            type |-> [tag |-> "Object", properties |-> properties,
                      required |-> required]])

ArrayType(items) ==
    Schema([tag |-> "Type", type |-> [tag |-> "Array", items |-> items]])

IntegerType == Schema([tag |-> "Type", type |-> [tag |-> "Integer"]])

NumberType == Schema([tag |-> "Type", type |-> [tag |-> "Number"]])

BooleanType == Schema([tag |-> "Type", type |-> [tag |-> "Boolean"]])

AnySchema == Schema([tag |-> "Any"])

OneOfSchema == Schema([tag |-> "OneOf"])

MediaType(schema) == [schema |-> schema]

RequestBody(content, required) == [content |-> content, required |-> required]

ResponseOf(content) == [content |-> content]

StatusCode(code) == [tag |-> "Code", code |-> code]

StatusRange(range) == [tag |-> "Range", range |-> range]

Responses(responses) == [responses |-> responses]

ParameterData(name, required, format) ==
    [name |-> name, required |-> required, format |-> format]

Parameter(variant, name, required, format) ==
    [variant |-> variant, parameter_data |-> ParameterData(name, required, format)]

FormatSchema(schema) == [tag |-> "Schema", schema |-> schema]

FormatContent == [tag |-> "Content"]

Operation(parameters, request_body, responses, deprecated) ==
    [parameters |-> parameters, request_body |-> request_body,
     responses |-> responses, deprecated |-> deprecated]

\* A PathItem with no operation
PathItem ==
    [get |-> None, put |-> None, post |-> None, delete |-> None,
     options |-> None, head |-> None, patch |-> None, trace |-> None]

Components(schemas, parameters, request_bodies, responses) ==
    [schemas |-> schemas, parameters |-> parameters,
     request_bodies |-> request_bodies, responses |-> responses]

OpenAPI(paths, components) == [paths |-> [paths |-> paths], components |-> components]

----------------------------------------------------------------------------
(* The run: main.rs calls diff_specs once on the two loaded documents *)

\* let diff = diff::diff_specs(&old_spec, &new_spec);
DiffSpecs ==
    /\ pc = "start"
    /\ result' = diff_specs(old, new)
    /\ pc' = "done"
    /\ UNCHANGED <<old, new, seed, stack, calls, process>>

\* What every run starts from, the two documents and the hash order apart
InitRun ==
    /\ pc = "start"
    /\ result = <<>>
    /\ stack = <<>>
    /\ calls = 0
    /\ cli = <<>>
    /\ fs = <<>>
    /\ reads = <<>>
    /\ parses = <<>>
    /\ error = None
    /\ stdout = <<>>
    /\ stderr = <<>>
    /\ exit_code = None

\* A hash order over the parameter keys and enum values the families use
ParamKeyUniverse == {ParamKey("id", "query"), ParamKey("id", "path")}

EnumUniverse == {"a", "b"}

CanonSeed ==
    [params |-> <<ParamKey("id", "query"), ParamKey("id", "path")>>,
     enums |-> <<"a", "b">>]

----------------------------------------------------------------------------
(* Documents that differ in their paths and operations (layers 1 and 2) *)

\* Largest number of operations a path item of the paths family carries
MaxMethods == 1

Methods == {"get", "put", "post", "delete", "options", "head", "patch", "trace"}

OpPlain == Operation(<<>>, None, Responses(<<>>), FALSE)

OpDeprecated == Operation(<<>>, None, Responses(<<>>), TRUE)

ItemWith(M, op) == [m \in Methods |-> IF m \in M THEN Some(op) ELSE None]

PathItems ==
    {ItemWith(M, op) :
        M \in {X \in SUBSET Methods : Cardinality(X) <= MaxMethods},
        op \in {OpPlain, OpDeprecated}}

\* The entries of the path map: "/a" absent, inline or a reference; "/b"
\* absent, inline or a reference
PathMaps ==
    LET a == {<<>>} \cup {<< <<"/a", Item(i)>> >> : i \in PathItems}
                    \cup {<< <<"/a", Ref("#/components/pathItems/A")>> >>}
        b == {<<>>, << <<"/b", Item(ItemWith({"get"}, OpPlain))>> >>,
              << <<"/b", Ref("#/components/pathItems/B")>> >>}
    IN {x \o y : x \in a, y \in b}

PathDocs == {OpenAPI(m, None) : m \in PathMaps}

InitPaths ==
    /\ old \in PathDocs
    /\ new \in PathDocs
    /\ seed = CanonSeed
    /\ InitRun

SpecPaths == InitPaths /\ [][DiffSpecs]_vars

----------------------------------------------------------------------------
(* Documents that differ in the parameters of one operation (layer 4) *)

\* Longest parameter list of an operation of the parameters family
MaxParams == 2

UserSchema ==
    ObjectType(<< <<"id", Item(IntegerType)>>, <<"name", Item(StringType(<<>>))>> >>,
               <<"id">>)

ParamComponents ==
    Some(Components(
        << <<"User", Item(UserSchema)>> >>,
        << <<"PId", Item(Parameter("Query", "id", TRUE,
                                   FormatSchema(Item(StringType(<<>>)))))>> >>,
        <<>>,
        <<>>))

\* The entries of a parameter list: inline parameters named "id" that differ
\* in location, required flag and schema, a reference to a component
\* parameter and a dangling reference
ParamRefs ==
    { Item(Parameter("Query", "id", FALSE, FormatSchema(Item(StringType(<<>>))))),
      Item(Parameter("Query", "id", TRUE, FormatSchema(Item(IntegerType)))),
      Item(Parameter("Path", "id", TRUE, FormatSchema(Item(StringType(<<>>))))),
      Item(Parameter("Query", "id", FALSE,
                     FormatSchema(Item(StringType(<<Some("a")>>))))),
      Item(Parameter("Query", "id", FALSE,
                     FormatSchema(Ref("#/components/schemas/User")))),
      Ref("#/components/parameters/PId"),
      Ref("#/components/parameters/Missing") }

\* All sequences over S of length at most n
SeqsUpTo(S, n) == UNION {[1..k -> S] : k \in 0..n}

\* The document with the one operation GET /a
OperationDoc(op, components) ==
    OpenAPI(<< <<"/a", Item([PathItem EXCEPT !.get = Some(op)])>> >>, components)

ParamDocs ==
    {OperationDoc(Operation(ps, None, Responses(<<>>), FALSE), ParamComponents) :
        ps \in SeqsUpTo(ParamRefs, MaxParams)}

InitParams ==
    /\ old \in ParamDocs
    /\ new \in ParamDocs
    /\ seed \in {[CanonSeed EXCEPT !.params = o] : o \in Perms(ParamKeyUniverse)}
    /\ InitRun

SpecParams == InitParams /\ [][DiffSpecs]_vars

----------------------------------------------------------------------------
(* Documents that differ in the schema of one media type (layers 7 and 8) *)

\* Longest enumeration of a string schema of the schema family
MaxEnumLen == 2

\* Longest required list of an object schema of the schema family
MaxRequired == 2

PropNames == {"id", "name"}

\* Tree.children: array of $ref Tree
TreeSchema ==
    ObjectType(<< <<"children",
                    Item(ArrayType(Some(Ref("#/components/schemas/Tree"))))>> >>,
               <<>>)

SchemaComponents ==
    Some(Components(
        << <<"User", Item(UserSchema)>>,
           <<"Tree", Item(TreeSchema)>>,
           <<"Alias", Ref("#/components/schemas/User")>> >>,
        <<>>, <<>>, <<>>))

\* The property maps of the object schemas: each of "id" and "name" absent,
\* an integer or a string with an enumeration; "id" a reference; the two
\* names in the other order
PropertyMaps ==
    LET vals == {Item(IntegerType), Item(StringType(<<Some("a")>>))}
        id == {<<>>} \cup {<< <<"id", v>> >> : v \in vals}
        name == {<<>>} \cup {<< <<"name", v>> >> : v \in vals}
    IN  {x \o y : x \in id, y \in name}
        \cup {<< <<"id", Ref("#/components/schemas/User")>> >>,
              << <<"id", Ref("#/components/schemas/Missing")>> >>,
              << <<"id", Item(StringType(<<Some("a"), Some("b")>>))>> >>,
              << <<"name", Item(IntegerType)>>, <<"id", Item(IntegerType)>> >>}

ObjectSchemas ==
    {ObjectType(ps, req) :
        ps \in PropertyMaps, req \in SeqsUpTo(PropNames, MaxRequired)}

\* Enumerations: Vec<Option<String>>, a null entry is None
StringSchemas ==
    {StringType(e) : e \in SeqsUpTo({None, Some("a"), Some("b")}, MaxEnumLen)}

ArraySchemas ==
    {ArrayType(i) :
        i \in {None, Some(Item(IntegerType)), Some(Item(StringType(<<Some("a")>>))),
               Some(Ref("#/components/schemas/User")),
               Some(Ref("#/components/schemas/Missing"))}}

OtherSchemas == {IntegerType, NumberType, BooleanType, AnySchema, OneOfSchema}

\* The schema of the media type: inline, or a reference that resolves, is
\* dangling, points to a reference or carries another kind's prefix
SchemaRefs ==
    {Item(x) : x \in ObjectSchemas \cup StringSchemas \cup ArraySchemas
                     \cup OtherSchemas}
    \cup {Ref("#/components/schemas/User"), Ref("#/components/schemas/Tree"),
          Ref("#/components/schemas/Missing"), Ref("#/components/schemas/Alias"),
          Ref("#/components/parameters/User")}

JsonContent(schema) == << <<"application/json", MediaType(Some(schema))>> >>

\* The operation whose request body (direction Request) or whose response
\* 200 (direction Response) carries the schema
SchemaOperation(direction, schema) ==
    IF direction = Request
    THEN Operation(<<>>, Some(Item(RequestBody(JsonContent(schema), FALSE))),
                   Responses(<<>>), FALSE)
    ELSE Operation(<<>>, None,
                   Responses(<< <<StatusCode(200),
                                  Item(ResponseOf(JsonContent(schema)))>> >>),
                   FALSE)

SchemaDoc(direction, schema) ==
    OperationDoc(SchemaOperation(direction, schema), SchemaComponents)

InitSchema ==
    /\ \E direction \in {Request, Response} :
        /\ old \in {SchemaDoc(direction, x) : x \in SchemaRefs}
        /\ new \in {SchemaDoc(direction, x) : x \in SchemaRefs}
    /\ seed \in {[CanonSeed EXCEPT !.enums = o] : o \in Perms(EnumUniverse)}
    /\ InitRun

SpecSchema == InitSchema /\ [][DiffSpecs]_vars

----------------------------------------------------------------------------
(* Documents that differ in the request body, the responses and the         *)
(* deprecation of one operation (layers 3, 5 and 6)                         *)

OperationComponents ==
    Some(Components(
        << <<"User", Item(UserSchema)>> >>,
        <<>>,
        << <<"Body", Item(RequestBody(JsonContent(Item(IntegerType)), TRUE))>>,
           <<"Alias", Ref("#/components/requestBodies/Body")>> >>,
        << <<"Ok", Item(ResponseOf(JsonContent(Item(IntegerType))))>> >>))

\* Option<ReferenceOr<RequestBody>>: absent, inline (optional or required, a
\* schema that resolves or not, another media type), a reference that
\* resolves, is dangling, points to a reference or carries another prefix
RequestBodies ==
    { None,
      Some(Item(RequestBody(JsonContent(Item(UserSchema)), FALSE))),
      Some(Item(RequestBody(JsonContent(Item(UserSchema)), TRUE))),
      Some(Item(RequestBody(JsonContent(Ref("#/components/schemas/Missing")), FALSE))),
      Some(Item(RequestBody(<< <<"text/plain", MediaType(None)>> >>, FALSE))),
      Some(Ref("#/components/requestBodies/Body")),
      Some(Ref("#/components/requestBodies/Missing")),
      Some(Ref("#/components/requestBodies/Alias")),
      Some(Ref("#/components/responses/Body")) }

\* The response maps: keyed by a numeric code or a class range
ResponseMaps ==
    { <<>>,
      << <<StatusCode(200), Item(ResponseOf(JsonContent(Item(UserSchema))))>> >>,
      << <<StatusCode(200), Item(ResponseOf(JsonContent(Item(IntegerType))))>> >>,
      << <<StatusCode(200), Item(ResponseOf(JsonContent(Item(
            ObjectType(<< <<"id", Item(IntegerType)>> >>, <<"id">>)))))>> >>,
      << <<StatusCode(200), Ref("#/components/responses/Ok")>> >>,
      << <<StatusCode(200), Ref("#/components/responses/Missing")>> >>,
      << <<StatusRange(2), Item(ResponseOf(JsonContent(Item(UserSchema))))>> >>,
      << <<StatusCode(200), Item(ResponseOf(JsonContent(Item(UserSchema))))>>,
         <<StatusCode(404), Item(ResponseOf(<<>>))>> >> }

OperationDocs ==
    {OperationDoc(Operation(<<>>, b, Responses(r), d), OperationComponents) :
        b \in RequestBodies, r \in ResponseMaps, d \in BOOLEAN}

InitOperation ==
    /\ old \in OperationDocs
    /\ new \in OperationDocs
    /\ seed = CanonSeed
    /\ InitRun

SpecOperation == InitOperation /\ [][DiffSpecs]_vars

----------------------------------------------------------------------------
(* diff_schema step by step: every call and return of the recursion, on     *)
(* documents whose component schemas refer to themselves                    *)

\* What one diff_schema call emits before its nested calls: nothing past the
\* depth guard, the type change, the object level's own changes, the enum
\* changes
schema_own(loc, context, o, n, direction, depth) ==
    IF depth_guard(depth)
    THEN <<>>
    ELSE
        LET old_type == type_name(o.schema_kind)
            new_type == type_name(n.schema_kind)
        IN  IF old_type # new_type
            THEN type_changed(loc, context, old_type, new_type)
            ELSE IF old_type = "object"
            THEN diff_object_own(loc, context, o.schema_kind.type,
                                 n.schema_kind.type, direction)
            ELSE IF old_type = "string"
            THEN diff_string_enum(loc, context, o.schema_kind.type,
                                  n.schema_kind.type, direction)
            ELSE <<>>

\* The arguments of the nested diff_schema calls one diff_schema call makes,
\* in order
schema_children(context, o, n, old_components, new_components, depth) ==
    IF depth_guard(depth)
    THEN <<>>
    ELSE
        LET old_type == type_name(o.schema_kind)
            new_type == type_name(n.schema_kind)
        IN  IF old_type # new_type
            THEN <<>>
            ELSE IF old_type = "object"
            THEN object_children(context, o.schema_kind.type, n.schema_kind.type,
                                 old_components, new_components, depth)
            ELSE IF old_type = "array"
            THEN array_children(context, o.schema_kind.type, n.schema_kind.type,
                                old_components, new_components, depth)
            ELSE <<>>

\* The activation of one diff_schema call: its arguments, the changes it has
\* collected and the nested calls it has still to make
Frame(c, direction) ==
    [context |-> c.context, old |-> c.old, new |-> c.new, depth |-> c.depth,
     out |-> schema_own(LocationOperation("/a", "GET"), c.context, c.old, c.new,
                        direction, c.depth),
     todo |-> schema_children(c.context, c.old, c.new,
                              old.components, new.components, c.depth)]

\* The direction and the two resolved media-type schemas diff_content hands
\* to diff_schema, for a document of the schema family
ContentCall ==
    LET doc_operation == old.paths.paths[1][2].item.get[1]
        new_operation == new.paths.paths[1][2].item.get[1]
        direction == IF doc_operation.request_body # None THEN Request ELSE Response
        slot(o) == IF direction = Request
                   THEN o.request_body[1].item.content[1][2].schema
                   ELSE o.responses.responses[1][2].item.content[1][2].schema
    IN [direction |-> direction,
        context |-> IF direction = Request
                    THEN "request body application/json"
                    ELSE "response '200' application/json",
        old_schema |-> AndThen(slot(doc_operation),
                               LAMBDA r : resolve_schema(r, old.components)),
        new_schema |-> AndThen(slot(new_operation),
                               LAMBDA r : resolve_schema(r, new.components))]

\* diff_content finds a schema unresolved: diff_schema is not called
NoSchema ==
    /\ pc = "start"
    /\ ~(IsSome(ContentCall.old_schema) /\ IsSome(ContentCall.new_schema))
    /\ pc' = "done"
    /\ result' = <<>>
    /\ UNCHANGED <<old, new, seed, stack, calls, process>>

\* diff_content calls diff_schema at depth 0
Enter ==
    /\ pc = "start"
    /\ IsSome(ContentCall.old_schema) /\ IsSome(ContentCall.new_schema)
    /\ stack' = <<Frame([context |-> ContentCall.context,
                         old |-> ContentCall.old_schema[1],
                         new |-> ContentCall.new_schema[1],
                         depth |-> 0],
                        ContentCall.direction)>>
    /\ calls' = 1
    /\ pc' = "running"
    /\ UNCHANGED <<old, new, seed, result, process>>

\* The running diff_schema makes its next nested call
Call ==
    /\ pc = "running"
    /\ stack[Len(stack)].todo # <<>>
    /\ LET top == stack[Len(stack)]
       IN stack' = [stack EXCEPT ![Len(stack)].todo = Tail(top.todo)]
                    \o <<Frame(Head(top.todo), ContentCall.direction)>>
    /\ calls' = calls + 1
    /\ UNCHANGED <<old, new, seed, pc, result, process>>

\* The running diff_schema has made all its nested calls and returns its
\* changes to its caller, the outermost one to diff_content
Return ==
    /\ pc = "running"
    /\ stack[Len(stack)].todo = <<>>
    /\ LET top == stack[Len(stack)]
           rest == SubSeq(stack, 1, Len(stack) - 1)
       IN  IF rest = <<>>
           THEN /\ stack' = <<>>
                /\ result' = top.out
                /\ pc' = "done"
           ELSE /\ stack' = [rest EXCEPT ![Len(rest)].out = @ \o top.out]
                /\ UNCHANGED <<result, pc>>
    /\ UNCHANGED <<old, new, seed, calls, process>>

\* Tree with one more property
TreeSchemaLabelled ==
    ObjectType(<< <<"children",
                    Item(ArrayType(Some(Ref("#/components/schemas/Tree"))))>>,
                  <<"label", Item(StringType(<<>>))>> >>,
               <<>>)

RecursiveComponents(tree) ==
    Some(Components(<< <<"Tree", Item(tree)>> >>, <<>>, <<>>, <<>>))

\* The schema of the media type: the self-referential Tree, an array of Tree,
\* an inline object that refers to Tree, a dangling reference, an integer
RecursiveRefs ==
    {Ref("#/components/schemas/Tree"),
     Ref("#/components/schemas/Missing"),
     Item(ArrayType(Some(Ref("#/components/schemas/Tree")))),
     Item(ObjectType(<< <<"root", Ref("#/components/schemas/Tree")>>,
                        <<"other", Ref("#/components/schemas/Tree")>> >>, <<>>)),
     Item(IntegerType)}

RecursiveDoc(direction, x, tree) ==
    OperationDoc(SchemaOperation(direction, x), RecursiveComponents(tree))

\* Tree is the same in the two documents or has one more property in one
InitRecursive ==
    /\ \E direction \in {Request, Response},
          s, t \in {TreeSchema, TreeSchemaLabelled},
          x, y \in RecursiveRefs :
        /\ old = RecursiveDoc(direction, x, s)
        /\ new = RecursiveDoc(direction, y, t)
    /\ seed = CanonSeed
    /\ InitRun

NextRecursive == NoSchema \/ Enter \/ Call \/ Return

\* The engine is a sequential program: a step that can be taken is taken
SpecRecursive ==
    InitRecursive /\ [][NextRecursive]_vars /\ WF_vars(NextRecursive)

----------------------------------------------------------------------------
(* One document compared with itself: main.rs is given the same file twice  *)

\* One operation with everything at once: two parameters under the same key,
\* a parameter reference that resolves and one that does not, a dangling
\* request body, a response with the cyclic Tree and a dangling response
EverythingDoc ==
    OpenAPI(
        << <<"/a", Item([PathItem EXCEPT !.get = Some(Operation(
               << Item(Parameter("Query", "id", FALSE,
                                 FormatSchema(Item(StringType(<<>>))))),
                  Item(Parameter("Query", "id", TRUE,
                                 FormatSchema(Item(IntegerType)))),
                  Ref("#/components/parameters/PId"),
                  Ref("#/components/parameters/Missing") >>,
               Some(Ref("#/components/requestBodies/Missing")),
               Responses(
                   << <<StatusCode(200),
                        Item(ResponseOf(JsonContent(Ref("#/components/schemas/Tree"))))>>,
                      <<StatusCode(404), Ref("#/components/responses/Missing")>> >>),
               TRUE))])>>,
           <<"/b", Ref("#/components/pathItems/B")>> >>,
        Some(Components(
            << <<"Tree", Item(TreeSchema)>>, <<"User", Item(UserSchema)>> >>,
            << <<"PId", Item(Parameter("Path", "id", TRUE,
                                       FormatSchema(Item(StringType(<<>>)))))>> >>,
            <<>>,
            <<>>)))

\* Every document of the families above
AllDocs ==
    PathDocs \cup ParamDocs \cup OperationDocs \cup {EverythingDoc}
        \cup {SchemaDoc(direction, x) :
                direction \in {Request, Response}, x \in SchemaRefs}
        \cup {RecursiveDoc(direction, x, tree) :
                direction \in {Request, Response}, x \in RecursiveRefs,
                tree \in {TreeSchema, TreeSchemaLabelled}}

InitSame ==
    /\ old \in AllDocs
    /\ new = old
    /\ seed \in {[params |-> p, enums |-> e] :
                    p \in Perms(ParamKeyUniverse), e \in Perms(EnumUniverse)}
    /\ InitRun

SpecSame == InitSame /\ [][DiffSpecs]_vars

----------------------------------------------------------------------------
(* Documents whose media-type schemas are of every kind type_name tells     *)
(* apart, each kind with schemas that differ in what they carry inside      *)

\* A numeric or boolean type with a constraint the engine never reads
Constrained(tag, minimum) ==
    Schema([tag |-> "Type", type |-> [tag |-> tag, minimum |-> minimum]])

\* SchemaKind::OneOf / AllOf / AnyOf / Not with the schemas it is made of
Composition(tag, schemas) == Schema([tag |-> tag, schemas |-> schemas])

\* SchemaKind::Any with properties
AnyWith(properties) == Schema([tag |-> "Any", properties |-> properties])

KindNames ==
    {"string", "number", "integer", "object", "array", "boolean",
     "oneOf", "allOf", "anyOf", "not", "any"}

\* The schemas of the family, by the kind they are of
KindsOf(name) ==
    CASE name = "string"  -> {StringType(<<>>), StringType(<<Some("a")>>)}
      [] name = "number"  -> {NumberType, Constrained("Number", 1)}
      [] name = "integer" -> {IntegerType, Constrained("Integer", 1)}
      [] name = "boolean" -> {BooleanType, Constrained("Boolean", 1)}
      [] name = "object"  -> {UserSchema,
                              ObjectType(<< <<"id", Item(StringType(<<>>))>> >>, <<>>)}
      [] name = "array"   -> {ArrayType(Some(Item(IntegerType))),
                              ArrayType(Some(Ref("#/components/schemas/User")))}
      [] name = "oneOf"   -> {OneOfSchema,
                              Composition("OneOf", <<Item(IntegerType)>>),
                              Composition("OneOf", <<Ref("#/components/schemas/User")>>)}
      [] name = "allOf"   -> {Composition("AllOf", <<Item(IntegerType)>>),
                              Composition("AllOf", <<Item(UserSchema)>>)}
      [] name = "anyOf"   -> {Composition("AnyOf", <<Item(IntegerType)>>),
                              Composition("AnyOf", <<Item(UserSchema)>>)}
      [] name = "not"     -> {Composition("Not", <<Item(IntegerType)>>),
                              Composition("Not", <<Item(UserSchema)>>)}
      [] name = "any"     -> {AnySchema,
                              AnyWith(<< <<"id", Item(IntegerType)>> >>)}

KindSchemas == UNION {KindsOf(name) : name \in KindNames}

InitKinds ==
    /\ \E direction \in {Request, Response} :
        /\ old \in {SchemaDoc(direction, Item(x)) : x \in KindSchemas}
        /\ new \in {SchemaDoc(direction, Item(x)) : x \in KindSchemas}
    /\ seed \in {[CanonSeed EXCEPT !.enums = o] : o \in Perms(EnumUniverse)}
    /\ InitRun

SpecKinds == InitKinds /\ [][DiffSpecs]_vars

----------------------------------------------------------------------------
(* Documents whose one operation differs in all it carries: parameters,     *)
(* request body, responses and deprecation (layer 3)                        *)

LayerParameters ==
    { <<>>,
      <<Item(Parameter("Query", "id", FALSE, FormatSchema(Item(StringType(<<>>)))))>>,
      <<Item(Parameter("Query", "id", TRUE, FormatSchema(Item(IntegerType))))>> }

LayerBodies ==
    { None,
      Some(Item(RequestBody(JsonContent(Item(UserSchema)), FALSE))),
      Some(Item(RequestBody(JsonContent(Item(IntegerType)), TRUE))) }

LayerResponses ==
    { <<>>,
      << <<StatusCode(200), Item(ResponseOf(JsonContent(Item(UserSchema))))>> >>,
      << <<StatusCode(200), Item(ResponseOf(JsonContent(Item(IntegerType))))>>,
         <<StatusCode(404), Item(ResponseOf(<<>>))>> >> }

LayerDocs ==
    {OperationDoc(Operation(p, b, Responses(r), d), None) :
        p \in LayerParameters, b \in LayerBodies, r \in LayerResponses,
        d \in BOOLEAN}

InitLayers ==
    /\ old \in LayerDocs
    /\ new \in LayerDocs
    /\ seed = CanonSeed
    /\ InitRun

SpecLayers == InitLayers /\ [][DiffSpecs]_vars

----------------------------------------------------------------------------
(* The views of a Diff (diff.rs, impl Diff) *)

is_empty(diff) == diff = <<>>

\* has_breaking that takes any change for a breaking one
has_breaking_any(diff) == diff # <<>>

has_breaking(diff) == \E i \in DOMAIN diff : diff[i].severity = Breaking

\* breaking without its filter
breaking_unfiltered(diff) == diff

breaking(diff) == SelectSeq(diff, LAMBDA c : c.severity = Breaking)

non_breaking(diff) == SelectSeq(diff, LAMBDA c : c.severity = NonBreaking)

\* impl fmt::Display for Change
display_change(c) ==
    IF c.location.tag = "Path"
    THEN c.location.path \o " - " \o c.message
    ELSE c.location.method \o " " \o c.location.path \o " - " \o c.message

----------------------------------------------------------------------------
(* The loader (loader.rs) *)

Ok(x) == [tag |-> "Ok", value |-> x]

Err(e) == [tag |-> "Err", error |-> e]

\* A path: what Path::extension tells of it and the rest of its name
Path(name, extension) == [name |-> name, extension |-> extension]

\* path.display().to_string()
path_display(path) ==
    IF path.extension = None THEN path.name
    ELSE path.name \o "." \o path.extension[1]

\* The text of a file, by what each of the two parsers makes of it: the
\* document it yields, or None when it fails
Content(json, yaml) == [json |-> json, yaml |-> yaml]

\* What is behind a path: unreadable (missing, a directory, not UTF-8), or
\* readable with a content
File(readable, content) == [readable |-> readable, content |-> content]

LoadErrorIo(path, e) == [tag |-> "Io", path |-> path, source |-> e]

LoadErrorParse(path, e) == [tag |-> "Parse", path |-> path, source |-> e]

\* impl fmt::Display for ParseError
display_parse_error(e) ==
    IF e.tag = "Yaml" THEN "invalid YAML: " \o e.text
    ELSE "invalid JSON: " \o e.text

\* impl fmt::Display for LoadError
display_load_error(e) ==
    IF e.tag = "Io"
    THEN "failed to read '" \o e.path \o "': " \o e.source
    ELSE "failed to parse '" \o e.path \o "': " \o display_parse_error(e.source)

\* detect_format that takes yml for an unknown extension
detect_format_yaml_only(path) ==
    CASE path.extension = Some("json") -> Some("Json")
      [] path.extension = Some("yaml") -> Some("Yaml")
      [] OTHER -> None

detect_format(path) ==
    CASE path.extension = Some("json") -> Some("Json")
      [] path.extension \in {Some("yaml"), Some("yml")} -> Some("Yaml")
      [] OTHER -> None

parse_content(content, format) ==
    IF format = "Json"
    THEN IF content.json # None THEN Ok(content.json[1])
         ELSE Err([tag |-> "Json", text |-> "expected value"])
    ELSE IF content.yaml # None THEN Ok(content.yaml[1])
         ELSE Err([tag |-> "Yaml", text |-> "invalid type"])

\* parse_content(content, Json).or_else(|_| parse_content(content, Yaml))
parse_unknown_content(content) ==
    LET json == parse_content(content, "Json")
    IN IF json.tag = "Ok" THEN json ELSE parse_content(content, "Yaml")

read_file(path, files) ==
    IF files[path].readable
    THEN Ok(files[path].content)
    ELSE Err(LoadErrorIo(path_display(path), "No such file or directory"))

parse_content_auto(content, format) ==
    IF format # None THEN parse_content(content, format[1])
    ELSE parse_unknown_content(content)

\* The formats parse_content is called with by parse_content_auto, in order
formats_tried(content, format) ==
    IF format # None THEN <<format[1]>>
    ELSE IF parse_content(content, "Json").tag = "Ok" THEN <<"Json">>
    ELSE <<"Json", "Yaml">>

load_file(path, files) ==
    LET path_str == path_display(path)
        content == read_file(path, files)
    IN  IF content.tag = "Err" THEN content
        ELSE LET format == detect_format(path)
                 parsed == parse_content_auto(content.value, format)
             IN IF parsed.tag = "Ok" THEN parsed
                ELSE Err(LoadErrorParse(path_str, parsed.error))

\* The parser calls load_file makes on a path
load_file_parses(path, files) ==
    IF read_file(path, files).tag = "Err" THEN <<>>
    ELSE [i \in DOMAIN formats_tried(files[path].content, detect_format(path)) |->
            <<path, formats_tried(files[path].content, detect_format(path))[i]>>]

----------------------------------------------------------------------------
(* The command-line program (main.rs) *)

\* let old_spec = loader::load_file(&cli.old)?;
LoadOld ==
    /\ pc = "load_old"
    /\ reads' = Append(reads, cli.old)
    /\ parses' = parses \o load_file_parses(cli.old, fs)
    /\ LET loaded == load_file(cli.old, fs)
       IN  IF loaded.tag = "Ok"
           THEN /\ old' = loaded.value
                /\ pc' = "load_new"
                /\ UNCHANGED error
           ELSE /\ error' = Some(loaded.error)
                /\ pc' = "failed"
                /\ UNCHANGED old
    /\ UNCHANGED <<new, seed, result, stack, calls, cli, fs, stdout, stderr, exit_code>>

\* let new_spec = loader::load_file(&cli.new)?;
LoadNew ==
    /\ pc = "load_new"
    /\ reads' = Append(reads, cli.new)
    /\ parses' = parses \o load_file_parses(cli.new, fs)
    /\ LET loaded == load_file(cli.new, fs)
       IN  IF loaded.tag = "Ok"
           THEN /\ new' = loaded.value
                /\ pc' = "start"
                /\ UNCHANGED error
           ELSE /\ error' = Some(loaded.error)
                /\ pc' = "failed"
                /\ UNCHANGED new
    /\ UNCHANGED <<old, seed, result, stack, calls, cli, fs, stdout, stderr, exit_code>>

\* The lines run prints for a Diff
report(diff) ==
    IF is_empty(diff) THEN <<"No changes detected.">>
    ELSE
        LET b == breaking(diff)
            n == non_breaking(diff)
            lines(cs) == [i \in DOMAIN cs |-> "  " \o display_change(cs[i])]
        IN  (IF b # <<>>
             THEN <<"Breaking changes (" \o ToString(Len(b)) \o "):">> \o lines(b)
             ELSE <<>>)
            \o (IF n # <<>>
                THEN (IF b # <<>> THEN <<"">> ELSE <<>>)
                     \o <<"Non-breaking changes (" \o ToString(Len(n)) \o "):">>
                     \o lines(n)
                ELSE <<>>)

\* run after diff_specs has returned: print the report, exit(1) on a breaking
\* change, return Ok(()) otherwise, on which main returns and the process
\* exits with 0
Report ==
    /\ pc = "done"
    /\ stdout' = stdout \o report(result)
    /\ exit_code' = Some(IF has_breaking(result) THEN 1 ELSE 0)
    /\ pc' = "exited"
    /\ UNCHANGED <<old, new, seed, result, stack, calls, cli, fs, reads, parses,
                   error, stderr>>

\* main on Err(e): eprintln!("Error: {e}"); std::process::exit(2)
Fail ==
    /\ pc = "failed"
    /\ stderr' = Append(stderr, "Error: " \o display_load_error(error[1]))
    /\ exit_code' = Some(2)
    /\ pc' = "exited"
    /\ UNCHANGED <<old, new, seed, result, stack, calls, cli, fs, reads, parses,
                   error, stdout>>

\* The documents behind the files: GET /a, no path, GET /a deprecated, /b,
\* GET /a with /b, PUT /a with /c
CliDocs ==
    {OpenAPI(m, None) :
        m \in { << <<"/a", Item(ItemWith({"get"}, OpPlain))>> >>,
                <<>>,
                << <<"/a", Item(ItemWith({"get"}, OpDeprecated))>> >>,
                << <<"/b", Item(ItemWith({"get"}, OpPlain))>> >>,
                << <<"/a", Item(ItemWith({"get"}, OpPlain))>>,
                   <<"/b", Item(ItemWith({"get"}, OpPlain))>> >>,
                << <<"/a", Item(ItemWith({"put"}, OpPlain))>>,
                   <<"/c", Item(ItemWith({"get"}, OpPlain))>> >> }}

\* A text both parsers accept, one only the YAML parser accepts (block style),
\* one only the JSON parser accepts (a repeated key), one neither accepts
Contents ==
    {Content(Some(d), Some(d)) : d \in CliDocs}
        \cup {Content(None, Some(d)) : d \in CliDocs}
        \cup {Content(Some(d), None) : d \in CliDocs}
        \cup {Content(None, None)}

Files == {File(FALSE, Content(None, None))} \cup {File(TRUE, c) : c \in Contents}

\* spec, spec.json, spec.yaml, spec.yml, spec.JSON, spec.txt
Paths ==
    {Path("spec", e) :
        e \in {None, Some("json"), Some("yaml"), Some("yml"), Some("JSON"),
               Some("txt")}}

InitCli ==
    /\ cli \in [old : Paths, new : Paths]
    /\ fs \in [{cli.old, cli.new} -> Files]
    /\ old = <<>>
    /\ new = <<>>
    /\ seed = CanonSeed
    /\ pc = "load_old"
    /\ result = <<>>
    /\ stack = <<>>
    /\ calls = 0
    /\ reads = <<>>
    /\ parses = <<>>
    /\ error = None
    /\ stdout = <<>>
    /\ stderr = <<>>
    /\ exit_code = None

NextCli == LoadOld \/ LoadNew \/ DiffSpecs \/ Report \/ Fail

SpecCli == InitCli /\ [][NextCli]_vars

----------------------------------------------------------------------------
(* Documents whose media-type schemas differ at one place, a number of      *)
(* levels below the media type (diff_schema step by step)                   *)

\* Deepest nesting of the family: two levels past the depth bound
MaxNest == 11

\* A schema slot with the leaf k levels down, below arrays ("items"), below
\* objects with the one property child ("child"), or below the two in turn
RECURSIVE Nest(_, _, _)
Nest(wrapper, k, leaf) ==
    IF k = 0 THEN leaf
    ELSE IF wrapper = "items" \/ (wrapper = "both" /\ k % 2 = 0)
    THEN Item(ArrayType(Some(Nest(wrapper, k - 1, leaf))))
    ELSE Item(ObjectType(<< <<"child", Nest(wrapper, k - 1, leaf)>> >>, <<>>))

\* The two leaves: equal, of different types, an object with a property less,
\* a reference that does not resolve
NestLeaves ==
    { <<Item(IntegerType), Item(IntegerType)>>,
      <<Item(IntegerType), Item(StringType(<<>>))>>,
      <<Item(ObjectType(<< <<"id", Item(IntegerType)>> >>, <<>>)),
        Item(ObjectType(<<>>, <<>>))>>,
      <<Item(IntegerType), Ref("#/components/schemas/Missing")>> }

InitNested ==
    /\ \E direction \in {Request, Response},
          wrapper \in {"items", "child", "both"},
          k \in 0..MaxNest,
          leaves \in NestLeaves :
        /\ old = SchemaDoc(direction, Nest(wrapper, k, leaves[1]))
        /\ new = SchemaDoc(direction, Nest(wrapper, k, leaves[2]))
    /\ seed = CanonSeed
    /\ InitRun

SpecNested == InitNested /\ [][NextRecursive]_vars

----------------------------------------------------------------------------
(* diff_specs invoked again and again on the same two documents, each       *)
(* invocation building its HashMaps afresh                                  *)

\* The iteration orders a HashMap over the parameter keys can take
ParamSeeds == {[CanonSeed EXCEPT !.params = o] : o \in Perms(ParamKeyUniverse)}

\* The caller is to invoke diff_specs once more: std's RandomState gives
\* every new HashMap its own keys, so the iteration order is drawn anew
Reinvoke ==
    /\ pc = "done"
    /\ seed' \in ParamSeeds
    /\ pc' = "again"
    /\ UNCHANGED <<old, new, result, stack, calls, process>>

\* diff_specs(&old_spec, &new_spec) once more
DiffSpecsAgain ==
    /\ pc = "again"
    /\ result' = diff_specs(old, new)
    /\ pc' = "done"
    /\ UNCHANGED <<old, new, seed, stack, calls, process>>

NextAgain == DiffSpecs \/ Reinvoke \/ DiffSpecsAgain

SpecAgain == InitParams /\ [][NextAgain]_vars

----------------------------------------------------------------------------
(* Documents with a component that refers back to itself from two           *)
(* properties (diff_schema step by step, its calls counted)                 *)

\* Node.left and Node.right: $ref Node
NodeSchema ==
    ObjectType(<< <<"left", Ref("#/components/schemas/Node")>>,
                  <<"right", Ref("#/components/schemas/Node")>> >>,
               <<>>)

BranchingComponents ==
    Some(Components(<< <<"Tree", Item(TreeSchema)>>,
                       <<"Node", Item(NodeSchema)>> >>,
                    <<>>, <<>>, <<>>))

BranchingRefs ==
    {Ref("#/components/schemas/Node"),
     Ref("#/components/schemas/Tree"),
     Ref("#/components/schemas/Missing"),
     Item(ArrayType(Some(Ref("#/components/schemas/Node")))),
     Item(IntegerType)}

BranchingDoc(direction, x) ==
    OperationDoc(SchemaOperation(direction, x), BranchingComponents)

InitBranching ==
    /\ \E direction \in {Request, Response}, x, y \in BranchingRefs :
        /\ old = BranchingDoc(direction, x)
        /\ new = BranchingDoc(direction, y)
    /\ seed = CanonSeed
    /\ InitRun

SpecBranching == InitBranching /\ [][NextRecursive]_vars

----------------------------------------------------------------------------
(* Documents with one reference slot, old and new with components of their  *)
(* own: the resolvers of layers 4 to 8                                      *)

\* The slots the engine resolves: a parameter of the operation
\* (resolve_param), its request body (resolve_request_body), its response 200
\* (resolve_response), the schema of the request body's media type
\* (resolve_schema), of a property and of the items below it
\* (resolve_box_schema)
ResolveKinds == {"parameter", "request_body", "response", "schema", "property", "items"}

\* The components section and the reference prefix of a slot
SectionOf(kind) ==
    CASE kind = "parameter"    -> "parameters"
      [] kind = "request_body" -> "request_bodies"
      [] kind = "response"     -> "responses"
      [] OTHER                 -> "schemas"

PrefixOf(section) ==
    CASE section = "parameters"     -> "#/components/parameters/"
      [] section = "request_bodies" -> "#/components/requestBodies/"
      [] section = "responses"      -> "#/components/responses/"
      [] section = "schemas"        -> "#/components/schemas/"

\* The value a section holds under the name "T": one value in the components
\* of flavour 1 and another in those of flavour 2
SectionValue(section, flavour) ==
    LET schema == IF flavour = 1 THEN IntegerType ELSE StringType(<<>>)
    IN  CASE section = "parameters" ->
                Parameter("Query", "id", flavour = 2, FormatSchema(Item(IntegerType)))
          [] section = "request_bodies" ->
                RequestBody(<< <<"text/plain", MediaType(Some(Item(schema)))>> >>, FALSE)
          [] section = "responses" -> ResponseOf(JsonContent(Item(schema)))
          [] section = "schemas" -> schema

\* A section with an inline entry "T" and an entry "Alias" that refers to it
SectionEntries(section, flavour) ==
    << <<"T", Item(SectionValue(section, flavour))>>,
       <<"Alias", Ref(PrefixOf(section) \o "T")>> >>

ComponentsOf(flavour) ==
    Components(SectionEntries("schemas", flavour),
               SectionEntries("parameters", flavour),
               SectionEntries("request_bodies", flavour),
               SectionEntries("responses", flavour))

\* Option<Components>: no components section, one whose sections are empty,
\* and two that give the same names different values
ComponentsChoices ==
    {None, Some(Components(<<>>, <<>>, <<>>, <<>>)),
     Some(ComponentsOf(1)), Some(ComponentsOf(2))}

\* The ReferenceOr of a slot: inline; a reference to the inline entry, to the
\* entry that is a reference, to no entry; a reference with the prefix of
\* another section, and one that lacks the leading '#'
SlotRefs(kind) ==
    LET section == SectionOf(kind)
        other == IF section = "schemas" THEN "parameters" ELSE "schemas"
    IN  {Item(SectionValue(section, 1)),
         Ref(PrefixOf(section) \o "T"),
         Ref(PrefixOf(section) \o "Alias"),
         Ref(PrefixOf(section) \o "Missing"),
         Ref(PrefixOf(other) \o "T"),
         Ref("/components/" \o section \o "/T")}

\* The document whose one slot of the kind holds r
ResolveDoc(kind, r, components) ==
    LET body(schema) == Some(Item(RequestBody(JsonContent(schema), FALSE)))
        op == CASE kind = "parameter" ->
                    Operation(<<r>>, None, Responses(<<>>), FALSE)
                [] kind = "request_body" ->
                    Operation(<<>>, Some(r), Responses(<<>>), FALSE)
                [] kind = "response" ->
                    Operation(<<>>, None, Responses(<< <<StatusCode(200), r>> >>), FALSE)
                [] kind = "schema" ->
                    Operation(<<>>, body(r), Responses(<<>>), FALSE)
                [] kind = "property" ->
                    Operation(<<>>, body(Item(ObjectType(<< <<"p", r>> >>, <<>>))),
                              Responses(<<>>), FALSE)
                [] kind = "items" ->
                    Operation(<<>>, body(Item(ArrayType(Some(r)))),
                              Responses(<<>>), FALSE)
    IN OperationDoc(op, components)

InitResolve ==
    /\ \E kind \in ResolveKinds :
        /\ old \in {ResolveDoc(kind, r, c) : r \in SlotRefs(kind), c \in ComponentsChoices}
        /\ new \in {ResolveDoc(kind, r, c) : r \in SlotRefs(kind), c \in ComponentsChoices}
    /\ seed = CanonSeed
    /\ InitRun

SpecResolve == InitResolve /\ [][DiffSpecs]_vars

----------------------------------------------------------------------------
(* Documents with two paths whose items carry operations in several method  *)
(* slots, the operations differing at every layer below (layers 1 to 8)     *)

\* An operation with a parameter, a request body and a response with an
\* enumeration
OpFirst ==
    Operation(
        <<Item(Parameter("Query", "id", FALSE, FormatSchema(Item(StringType(<<>>)))))>>,
        Some(Item(RequestBody(JsonContent(Item(UserSchema)), FALSE))),
        Responses(<< <<StatusCode(200),
                       Item(ResponseOf(JsonContent(Item(StringType(<<Some("a")>>)))))>> >>),
        FALSE)

\* The operation that differs from OpFirst in its parameter, its request body
\* and the body's schema, its responses and an enumeration, and is deprecated
OpSecond ==
    Operation(
        <<Item(Parameter("Query", "id", TRUE, FormatSchema(Item(IntegerType))))>>,
        Some(Item(RequestBody(
            << <<"application/json",
                 MediaType(Some(Item(ObjectType(<< <<"id", Item(StringType(<<>>))>> >>,
                                                <<>>))))>>,
               <<"text/plain", MediaType(None)>> >>,
            TRUE))),
        Responses(<< <<StatusCode(200),
                       Item(ResponseOf(JsonContent(Item(
                            StringType(<<Some("a"), Some("b")>>)))))>>,
                     <<StatusCode(404), Item(ResponseOf(<<>>))>> >>),
        TRUE)

\* The path items: GET and TRACE absent or one of the two operations, POST
\* absent or a plain operation
LocatedItems ==
    {[PathItem EXCEPT !.get = g, !.trace = t, !.post = p] :
        g \in {None, Some(OpFirst), Some(OpSecond)},
        t \in {None, Some(OpFirst), Some(OpSecond)},
        p \in {None, Some(OpPlain)}}

\* The path maps: "/a" absent, inline or a reference; "/b" absent or inline,
\* after "/a" or before it
LocatedMaps ==
    LET a == {<<>>, << <<"/a", Ref("#/components/pathItems/A")>> >>}
                \cup {<< <<"/a", Item(i)>> >> : i \in LocatedItems}
        b == {<<>>, << <<"/b", Item([PathItem EXCEPT !.get = Some(OpFirst)])>> >>,
              << <<"/b", Item([PathItem EXCEPT !.get = Some(OpSecond)])>> >>}
    IN {x \o y : x \in a, y \in b} \cup {y \o x : x \in a, y \in b}

InitLocated ==
    /\ old \in {OpenAPI(m, None) : m \in LocatedMaps}
    /\ new \in {OpenAPI(m, None) : m \in LocatedMaps}
    /\ seed = CanonSeed
    /\ InitRun

SpecLocated == InitLocated /\ [][DiffSpecs]_vars

----------------------------------------------------------------------------
(* diff_schema called on the same two schemas in direction Request and then  *)
(* in direction Response, each call building its HashSets afresh            *)

\* The schemas the two calls compare: objects whose properties (integers,
\* strings with an enumeration) and required lists differ, strings with
\* enumerations, arrays of strings, and other types
DirectionSchemas ==
    {ObjectType(ps, req) :
        ps \in {<<>>,
                << <<"id", Item(IntegerType)>> >>,
                << <<"name", Item(StringType(<<Some("a")>>))>> >>,
                << <<"id", Item(IntegerType)>>, <<"name", Item(StringType(<<>>))>> >>,
                << <<"id", Item(StringType(<<Some("a"), Some("b")>>))>>,
                   <<"name", Item(IntegerType)>> >>},
        req \in SeqsUpTo(PropNames, 1)}
    \cup StringSchemas
    \cup {ArrayType(Some(Item(StringType(e)))) :
            e \in {<<>>, <<Some("a")>>, <<Some("b")>>}}
    \cup {IntegerType, AnySchema}

\* The iteration orders a HashSet over the enum values can take
EnumSeeds == {[CanonSeed EXCEPT !.enums = o] : o \in Perms(EnumUniverse)}

InitDirections ==
    /\ old \in {SchemaDoc(Request, Item(x)) : x \in DirectionSchemas}
    /\ new \in {SchemaDoc(Request, Item(x)) : x \in DirectionSchemas}
    /\ seed \in EnumSeeds
    /\ InitRun

\* diff_schema(loc, context, old, new, direction, ...) on the two media-type
\* schemas, as diff_content calls it
diff_schema_in(direction) ==
    LET schema(doc) == doc.paths.paths[1][2].item.get[1]
                            .request_body[1].item.content[1][2].schema[1].item
    IN diff_schema(LocationOperation("/a", "GET"), "request body application/json",
                   schema(old), schema(new), direction,
                   old.components, new.components, 0)

DiffSchemaRequest ==
    /\ pc = "start"
    /\ result' = diff_schema_in(Request)
    /\ pc' = "request"
    /\ UNCHANGED <<old, new, seed, stack, calls, process>>

\* Between the two calls: std's RandomState gives every new HashSet its own
\* keys, so the second call's iteration order is drawn anew
NewHashState ==
    /\ pc = "request"
    /\ seed' \in EnumSeeds
    /\ pc' = "swap"
    /\ UNCHANGED <<old, new, result, stack, calls, process>>

DiffSchemaResponse ==
    /\ pc = "swap"
    /\ result' = diff_schema_in(Response)
    /\ pc' = "done"
    /\ UNCHANGED <<old, new, seed, stack, calls, process>>

NextDirections == DiffSchemaRequest \/ NewHashState \/ DiffSchemaResponse

SpecDirections == InitDirections /\ [][NextDirections]_vars

----------------------------------------------------------------------------
(* Properties *)

\* The changes of a Diff that satisfy P, in order
Select(changes, P(_)) == SelectSeq(changes, P)

\* The changes of the result located at a path, whatever the location kind
AtPath(path) == Select(result, LAMBDA c : c.location.path = path)

\* The changes of the result located at an operation
AtOperation(path, method) ==
    Select(result, LAMBDA c : c.location = LocationOperation(path, method))

PathNames == {"/a", "/b"}

\* C9: a path template on one side only yields exactly one change located at
\* that path, "endpoint removed" (Breaking, path location) when it is in old
\* only and "endpoint added" (NonBreaking, path location) when it is in new
\* only, whatever the path item holds; nothing else is emitted about it.
C9_PathsLayer ==
    pc = "done" =>
        \A path \in PathNames :
            LET inOld == ContainsKey(old.paths.paths, path)
                inNew == ContainsKey(new.paths.paths, path)
            IN  /\ (inOld /\ ~inNew) =>
                    AtPath(path) =
                        <<Change(Breaking, LocationPath(path), "endpoint removed")>>
                /\ (~inOld /\ inNew) =>
                    AtPath(path) =
                        <<Change(NonBreaking, LocationPath(path), "endpoint added")>>

\* A run where "/a", holding an operation, was removed and "/b" was added
C9_Witness ==
    /\ pc = "done"
    /\ Get(old.paths.paths, "/a") = Some(Item(ItemWith({"post"}, OpPlain)))
    /\ ~ContainsKey(new.paths.paths, "/a")
    /\ ~ContainsKey(old.paths.paths, "/b")
    /\ ContainsKey(new.paths.paths, "/b")
    /\ Len(result) = 2

\* The uppercase name of each method slot of a path item
MethodName ==
    [get |-> "GET", put |-> "PUT", post |-> "POST", delete |-> "DELETE",
     options |-> "OPTIONS", head |-> "HEAD", patch |-> "PATCH", trace |-> "TRACE"]

\* C10: for a path inline on both sides and each of the eight method slots, an
\* operation in old only yields exactly one Breaking "operation removed", one
\* in new only exactly one NonBreaking "operation added", one on neither side
\* nothing, each located at the operation (path, uppercase method name).
C10_PathItemLayer ==
    pc = "done" =>
        \A path \in PathNames :
            LET o == AndThen(Get(old.paths.paths, path), AsItem)
                n == AndThen(Get(new.paths.paths, path), AsItem)
            IN  (IsSome(o) /\ IsSome(n)) =>
                    \A m \in Methods :
                        LET loc == LocationOperation(path, MethodName[m])
                            got == AtOperation(path, MethodName[m])
                            inOld == IsSome(o[1][m])
                            inNew == IsSome(n[1][m])
                        IN  /\ (inOld /\ ~inNew) =>
                                got = <<Change(Breaking, loc, "operation removed")>>
                            /\ (~inOld /\ inNew) =>
                                got = <<Change(NonBreaking, loc, "operation added")>>
                            /\ (~inOld /\ ~inNew) => got = <<>>

\* A run where "/a" is inline on both sides, lost its PUT and gained a TRACE
C10_Witness ==
    /\ pc = "done"
    /\ Get(old.paths.paths, "/a") = Some(Item(ItemWith({"put"}, OpPlain)))
    /\ Get(new.paths.paths, "/a") = Some(Item(ItemWith({"trace"}, OpPlain)))
    /\ AtOperation("/a", "PUT") # <<>>
    /\ AtOperation("/a", "TRACE") # <<>>

\* The operation GET /a of a document of the operation families
TheOperation(doc) == doc.paths.paths[1][2].item.get[1]

TheLocation == LocationOperation("/a", "GET")

\* The location a parameter is carried in
LocationIn(p) ==
    [Query |-> "query", Header |-> "header", Path |-> "path",
     Cookie |-> "cookie"][p.variant]

\* The parameters of a list that are inline or references to an inline
\* component parameter of the same document, in list order
Resolved(params, components) ==
    FilterMap(MapSeq(params, LAMBDA r : resolve_param(r, components)))

\* The resolved parameters of a list identified by (name, location)
WithKey(params, components, name, location) ==
    LET rs == Resolved(params, components)
    IN {rs[i] : i \in {j \in DOMAIN rs :
            /\ rs[j].parameter_data.name = name
            /\ LocationIn(rs[j]) = location}}

\* The number of changes of the result with a given message
Count(message) == Cardinality({i \in DOMAIN result : result[i].message = message})

\* The severity of every change of the result with a given message is sev
AllSeverity(message, sev) ==
    \A i \in DOMAIN result : result[i].message = message => result[i].severity = sev

ParamLocations == {"query", "header", "path", "cookie"}

ParamNames == {"id"}

\* The type name of a parameter's schema when it is inline
InlineTypeName(p) ==
    LET f == p.parameter_data.format
    IN  IF f.tag = "Schema" /\ f.schema.tag = "Item"
        THEN Some(type_name(f.schema.item.schema_kind))
        ELSE None

\* No key is held by two different parameters on one side
UniqueKeys ==
    \A name \in ParamNames, l \in ParamLocations :
        /\ Cardinality(WithKey(TheOperation(old).parameters, old.components, name, l)) <= 1
        /\ Cardinality(WithKey(TheOperation(new).parameters, new.components, name, l)) <= 1

\* What the claim expects about the parameter (name, l) when one parameter p
\* holds that key in old and one parameter q holds it in new
ExpectedOnBothSides(name, p, q) ==
    LET prefix == "parameter '" \o name \o "' "
        x == InlineTypeName(p)
        y == InlineTypeName(q)
    IN  (IF ~p.parameter_data.required /\ q.parameter_data.required
         THEN {Change(Breaking, TheLocation, prefix \o "became required")}
         ELSE {})
        \cup
        (IF p.parameter_data.required /\ ~q.parameter_data.required
         THEN {Change(NonBreaking, TheLocation, prefix \o "became optional")}
         ELSE {})
        \cup
        (IF IsSome(x) /\ IsSome(y) /\ x # y
         THEN {Change(Breaking, TheLocation,
                      prefix \o "type changed from " \o x[1] \o " to " \o y[1])}
         ELSE {})

\* C7: for the parameters present on both sides (equal name and location, one
\* parameter per key and side): optional -> required yields one Breaking
\* "became required", required -> optional one NonBreaking "became optional",
\* inline schemas of different type names one Breaking "type changed from X to
\* Y"; nothing else is emitted about a parameter present on both sides, so
\* one whose required flag and type name are unchanged yields no change.
C7_ParametersOnBothSides ==
    (pc = "done" /\ UniqueKeys) =>
        \A name \in ParamNames :
            LET about == Select(result, LAMBDA c :
                    IsSome(StripPrefix(c.message, "parameter '" \o name \o "' ")))
                expected(l) ==
                    LET ps == WithKey(TheOperation(old).parameters,
                                      old.components, name, l)
                        qs == WithKey(TheOperation(new).parameters,
                                      new.components, name, l)
                    IN UNION {ExpectedOnBothSides(name, p, q) : p \in ps, q \in qs}
                all == Range(about) \cup UNION {expected(l) : l \in ParamLocations}
            IN  \A c \in all :
                    Cardinality({i \in DOMAIN about : about[i] = c})
                        = Cardinality({l \in ParamLocations : c \in expected(l)})

\* A run where a query parameter became required and changed its type
C7_Witness ==
    /\ pc = "done"
    /\ UniqueKeys
    /\ Count("parameter 'id' became required") = 1
    /\ Count("parameter 'id' type changed from string to integer") = 1

\* C8: parameters are matched by (name, location): a key held on the old side
\* only yields exactly one "<location> parameter '<name>' removed", Breaking
\* iff that parameter was required; a key held on the new side only exactly
\* one "<location> parameter '<name>' added", Breaking iff it is required; a
\* key held on both sides yields neither.
C8_ParameterPresence ==
    (pc = "done" /\ UniqueKeys) =>
        \A name \in ParamNames, l \in ParamLocations :
            LET ps == WithKey(TheOperation(old).parameters, old.components, name, l)
                qs == WithKey(TheOperation(new).parameters, new.components, name, l)
                removed == l \o " parameter '" \o name \o "' removed"
                added == l \o " parameter '" \o name \o "' added"
                sev(p) == IF p.parameter_data.required THEN Breaking ELSE NonBreaking
            IN  /\ Count(removed) = IF ps # {} /\ qs = {} THEN 1 ELSE 0
                /\ Count(added) = IF ps = {} /\ qs # {} THEN 1 ELSE 0
                /\ \A p \in ps : AllSeverity(removed, sev(p))
                /\ \A q \in qs : AllSeverity(added, sev(q))
                /\ \A i \in DOMAIN result :
                    result[i].message \in {removed, added} =>
                        result[i].location = TheLocation

\* A run where the parameter "id" moved from the query to the path: one
\* removal and one addition
C8_Witness ==
    /\ pc = "done"
    /\ UniqueKeys
    /\ Count("query parameter 'id' removed") = 1
    /\ Count("path parameter 'id' added") = 1
    /\ Len(result) = 2

----------------------------------------------------------------------------
(* The schema layer, read off a document of the schema family *)

\* The direction of the one schema of a document of the schema family
DirectionOf(doc) ==
    IF TheOperation(doc).request_body # None THEN Request ELSE Response

\* The media-type schema (a ReferenceOr) of a document of the schema family
RootRef(doc) ==
    IF DirectionOf(doc) = Request
    THEN TheOperation(doc).request_body[1].item.content[1][2].schema[1]
    ELSE TheOperation(doc).responses.responses[1][2].item.content[1][2].schema[1]

\* The context of the changes about the media-type schema
RootContext(doc) ==
    IF DirectionOf(doc) = Request
    THEN "request body application/json"
    ELSE "response '200' application/json"

\* The media-type schema when it is inline or reached by one reference to an
\* inline component schema of the same document
RootSchema(doc) == resolve_schema(RootRef(doc), doc.components)

\* Both documents carry a root schema of the given type
BothRoots(tag) ==
    /\ IsSome(RootSchema(old)) /\ IsSome(RootSchema(new))
    /\ RootSchema(old)[1].schema_kind.tag = "Type"
    /\ RootSchema(new)[1].schema_kind.tag = "Type"
    /\ RootSchema(old)[1].schema_kind.type.tag = tag
    /\ RootSchema(new)[1].schema_kind.type.tag = tag

OldType == RootSchema(old)[1].schema_kind.type

NewType == RootSchema(new)[1].schema_kind.type

\* The changes of the result whose message starts with a prefix
StartingWith(prefix) ==
    Select(result, LAMBDA c : IsSome(StripPrefix(c.message, prefix)))

\* C5: for two object schemas, a property in old only yields exactly one
\* "property '<P>' removed", Breaking in Response and NonBreaking in Request; a
\* property in new only yields exactly one "property '<P>' added", Breaking
\* iff the direction is Request and P is in new.required; and an added
\* required property yields no other change.
C5_ObjectPropertyPresence ==
    (pc = "done" /\ BothRoots("Object")) =>
        LET direction == DirectionOf(old)
            ctx == RootContext(old)
        IN \A P \in PropNames :
            LET inOld == ContainsKey(OldType.properties, P)
                inNew == ContainsKey(NewType.properties, P)
                required == P \in Range(NewType.required)
                about == StartingWith(ctx \o ": property '" \o P \o "' ")
                removed == Change(IF direction = Response THEN Breaking
                                                          ELSE NonBreaking,
                                  TheLocation,
                                  ctx \o ": property '" \o P \o "' removed")
                added == Change(IF direction = Request /\ required THEN Breaking
                                                                   ELSE NonBreaking,
                                TheLocation,
                                ctx \o ": property '" \o P \o "' added")
            IN  /\ (inOld /\ ~inNew) =>
                    /\ Cardinality({i \in DOMAIN about : about[i] = removed}) = 1
                    /\ Count(removed.message) = 1
                /\ (~inOld /\ inNew) =>
                    /\ Cardinality({i \in DOMAIN about : about[i] = added}) = 1
                    /\ Count(added.message) = 1
                /\ (~inOld /\ inNew /\ required) => about = <<added>>

\* A run in direction Request where "id" was removed and "name" was added as
\* a required property
C5_Witness ==
    /\ pc = "done"
    /\ BothRoots("Object")
    /\ DirectionOf(old) = Request
    /\ Keys(OldType.properties) = <<"id">>
    /\ Keys(NewType.properties) = <<"name">>
    /\ NewType.required = <<"name">>
    /\ Len(result) = 2
    /\ result[2].severity = Breaking

\* The non-null values of an enumeration
EnumValues(enumeration) ==
    {enumeration[i][1] : i \in {j \in DOMAIN enumeration : enumeration[j] # None}}

\* C6: for two string schemas of which one has a non-empty enumeration, a
\* non-null value in old only yields one Breaking "enum value '<v>' removed"
\* in both directions, one in new only yields one "enum value '<v>' added",
\* Breaking in Response and NonBreaking in Request; nothing else is emitted,
\* and nothing at all when both enumerations are empty or the value sets are
\* equal.
C6_StringEnumeration ==
    (pc = "done" /\ BothRoots("String")) =>
        LET direction == DirectionOf(old)
            ctx == RootContext(old)
            oldValues == EnumValues(OldType.enumeration)
            newValues == EnumValues(NewType.enumeration)
            removed(v) == Change(Breaking, TheLocation,
                                 ctx \o ": enum value '" \o v \o "' removed")
            added(v) == Change(IF direction = Response THEN Breaking
                                                       ELSE NonBreaking,
                               TheLocation,
                               ctx \o ": enum value '" \o v \o "' added")
        IN  /\ \A v \in oldValues \ newValues :
                Cardinality({i \in DOMAIN result : result[i] = removed(v)}) = 1
            /\ \A v \in newValues \ oldValues :
                Cardinality({i \in DOMAIN result : result[i] = added(v)}) = 1
            /\ Len(result) = Cardinality(oldValues \ newValues)
                             + Cardinality(newValues \ oldValues)
            /\ ((OldType.enumeration = <<>> /\ NewType.enumeration = <<>>)
                    \/ oldValues = newValues) => result = <<>>

\* A run in direction Request where the value "a" was removed and "b" added
C6_Witness ==
    /\ pc = "done"
    /\ BothRoots("String")
    /\ DirectionOf(old) = Request
    /\ OldType.enumeration = <<Some("a"), None>>
    /\ NewType.enumeration = <<Some("b"), Some("b")>>
    /\ Len(result) = 2

----------------------------------------------------------------------------
(* Unresolvable references *)

\* A request body slot holds a reference that does not resolve in its document
DanglingBody(doc) ==
    LET b == TheOperation(doc).request_body
    IN  /\ b # None
        /\ b[1].tag = "Reference"
        /\ resolve_request_body(b[1], doc) = None

\* The response of a status code is a reference that does not resolve
DanglingResponse(doc, code) ==
    LET r == Get(TheOperation(doc).responses.responses, code)
    IN  /\ r # None
        /\ r[1].tag = "Reference"
        /\ resolve_response(r[1], doc) = None

StatusCodes == {StatusCode(200), StatusCode(404), StatusRange(2)}

\* C4: when a reference fails to resolve on either side, the comparison
\* containing it emits no change for that element: no request-body change when
\* one side's body is an unresolvable reference, no change about a response
\* present on both sides of which one is an unresolvable reference.
C4_UnresolvableEmitsNothing ==
    pc = "done" =>
        /\ (DanglingBody(old) \/ DanglingBody(new)) =>
                StartingWith("request body") = <<>>
        /\ \A code \in StatusCodes :
            (/\ ContainsKey(TheOperation(old).responses.responses, code)
             /\ ContainsKey(TheOperation(new).responses.responses, code)
             /\ DanglingResponse(old, code) \/ DanglingResponse(new, code)) =>
                StartingWith("response '" \o status_code_str(code) \o "'") = <<>>

\* The part of C4 the code satisfies: a response present on both sides with an
\* unresolvable side, and a request body unresolvable on one side whose other
\* side is absent or unresolvable too, yield no change.
C4_Supporting ==
    pc = "done" =>
        /\ ((DanglingBody(old) \/ TheOperation(old).request_body = None)
            /\ (DanglingBody(new) \/ TheOperation(new).request_body = None)) =>
                StartingWith("request body") = <<>>
        /\ \A code \in StatusCodes :
            (/\ ContainsKey(TheOperation(old).responses.responses, code)
             /\ ContainsKey(TheOperation(new).responses.responses, code)
             /\ DanglingResponse(old, code) \/ DanglingResponse(new, code)) =>
                StartingWith("response '" \o status_code_str(code) \o "'") = <<>>

----------------------------------------------------------------------------
(* Inline/reference equivalence *)

\* A document of the operation families with its operation replaced
WithOperation(doc, op) == OperationDoc(op, doc.components)

\* The document with the i-th parameter of its operation, when it is a
\* reference to an inline component parameter, replaced by that parameter
InlineParameter(doc, i) ==
    LET op == TheOperation(doc)
        r == op.parameters[i]
        p == resolve_param(r, doc.components)
    IN  IF r.tag = "Reference" /\ IsSome(p)
        THEN WithOperation(doc, [op EXCEPT !.parameters[i] = Item(p[1])])
        ELSE doc

\* The document with the schema of the i-th parameter of its operation, when
\* that parameter is inline and its schema a reference to an inline component
\* schema, replaced by that schema
InlineParameterSchema(doc, i) ==
    LET op == TheOperation(doc)
        r == op.parameters[i]
        f == r.item.parameter_data.format
        x == resolve_schema(f.schema, doc.components)
    IN  IF r.tag = "Item" /\ f.tag = "Schema" /\ f.schema.tag = "Reference"
           /\ IsSome(x)
        THEN WithOperation(doc,
                [op EXCEPT !.parameters[i].item.parameter_data.format =
                                FormatSchema(Item(x[1]))])
        ELSE doc

\* The document with the request body of its operation, when it is a
\* reference to an inline component body, replaced by that body
InlineRequestBody(doc) ==
    LET op == TheOperation(doc)
        b == op.request_body
        x == AndThen(b, LAMBDA r : resolve_request_body(r, doc))
    IN  IF b # None /\ b[1].tag = "Reference" /\ IsSome(x)
        THEN WithOperation(doc, [op EXCEPT !.request_body = Some(Item(x[1]))])
        ELSE doc

\* The document with the i-th response of its operation, when it is a
\* reference to an inline component response, replaced by that response
InlineResponse(doc, i) ==
    LET op == TheOperation(doc)
        r == op.responses.responses[i][2]
        x == resolve_response(r, doc)
    IN  IF r.tag = "Reference" /\ IsSome(x)
        THEN WithOperation(doc,
                [op EXCEPT !.responses.responses[i][2] = Item(x[1])])
        ELSE doc

\* A schema slot (ReferenceOr<Schema>) with a reference to an inline component
\* schema replaced by that schema
InlineSlot(r, components) ==
    LET x == resolve_schema(r, components)
    IN IF r.tag = "Reference" /\ IsSome(x) THEN Item(x[1]) ELSE r

\* An inline schema with the references one level below it (the schema of
\* every property, the items) replaced
InlineBelow(s, components) ==
    LET k == s.schema_kind
    IN  IF k.tag = "Type" /\ k.type.tag = "Object"
        THEN [s EXCEPT !.schema_kind.type.properties =
                [i \in DOMAIN k.type.properties |->
                    <<k.type.properties[i][1],
                      InlineSlot(k.type.properties[i][2], components)>>]]
        ELSE IF k.tag = "Type" /\ k.type.tag = "Array" /\ k.type.items # None
        THEN [s EXCEPT !.schema_kind.type.items =
                Some(InlineSlot(k.type.items[1], components))]
        ELSE s

\* A document of the schema family with the schema slot of its media type
\* replaced
WithRoot(doc, r) == OperationDoc(SchemaOperation(DirectionOf(doc), r), doc.components)

\* The document with its media-type schema reference replaced
InlineRoot(doc) == WithRoot(doc, InlineSlot(RootRef(doc), doc.components))

\* The document with the property and items references of its inline
\* media-type schema replaced
InlineNested(doc) ==
    IF RootRef(doc).tag = "Item"
    THEN WithRoot(doc, Item(InlineBelow(RootRef(doc).item, doc.components)))
    ELSE doc

\* C2: replacing a reference that resolves to an inline component (here: a
\* parameter, a parameter's schema) by the component's value, in either
\* document, leaves the result of diff_specs unchanged.
C2_InlineReferenceEquivalence ==
    pc = "done" =>
        /\ \A i \in DOMAIN TheOperation(old).parameters :
            /\ diff_specs(InlineParameter(old, i), new) = result
            /\ diff_specs(InlineParameterSchema(old, i), new) = result
        /\ \A i \in DOMAIN TheOperation(new).parameters :
            /\ diff_specs(old, InlineParameter(new, i)) = result
            /\ diff_specs(old, InlineParameterSchema(new, i)) = result

\* The part of C2 the code satisfies for parameters: replacing a parameter
\* reference leaves the result unchanged.
C2_SupportingParameter ==
    pc = "done" =>
        /\ \A i \in DOMAIN TheOperation(old).parameters :
            diff_specs(InlineParameter(old, i), new) = result
        /\ \A i \in DOMAIN TheOperation(new).parameters :
            diff_specs(old, InlineParameter(new, i)) = result

\* The part of C2 the code satisfies for request bodies and responses
C2_SupportingOperation ==
    pc = "done" =>
        /\ diff_specs(InlineRequestBody(old), new) = result
        /\ diff_specs(old, InlineRequestBody(new)) = result
        /\ \A i \in DOMAIN TheOperation(old).responses.responses :
            diff_specs(InlineResponse(old, i), new) = result
        /\ \A i \in DOMAIN TheOperation(new).responses.responses :
            diff_specs(old, InlineResponse(new, i)) = result

\* The part of C2 the code satisfies for schemas: replacing the reference at a
\* media type, an object property or array items leaves the result unchanged.
C2_SupportingSchema ==
    pc = "done" =>
        /\ diff_specs(InlineRoot(old), new) = result
        /\ diff_specs(old, InlineRoot(new)) = result
        /\ diff_specs(InlineNested(old), new) = result
        /\ diff_specs(old, InlineNested(new)) = result

----------------------------------------------------------------------------
(* Termination *)

\* The step-by-step run returns what diff_specs computes
StepwiseAgrees == pc = "done" => result = diff_specs(old, new)

\* The depth argument of every active call is its position in the chain
ChainDepths == \A i \in DOMAIN stack : stack[i].depth = i - 1

\* C3: diff_specs returns for every pair of documents, also when component
\* schemas refer to themselves, and no chain of nested diff_schema calls is
\* longer than MAX_DEPTH + 1.
C3_Termination ==
    /\ [](Len(stack) <= MAX_DEPTH + 1)
    /\ <>(pc = "done")

\* A run on Tree (children: array of $ref Tree) against itself at the moment
\* the chain of nested calls has MAX_DEPTH + 1 members
C3_Witness ==
    /\ RootRef(old) = Ref("#/components/schemas/Tree")
    /\ RootRef(new) = Ref("#/components/schemas/Tree")
    /\ Len(stack) = MAX_DEPTH + 1

----------------------------------------------------------------------------
(* Reflexivity *)

\* C1: a document compared with itself yields no change, whatever it holds:
\* references that resolve or not, parameters under one key, cyclic schemas
C1_Reflexivity == (pc = "done" /\ old = new) => result = <<>>

\* The document with duplicate keys, dangling references and the cyclic Tree
\* has been compared with itself
C1_Witness == pc = "done" /\ old = EverythingDoc /\ new = EverythingDoc

----------------------------------------------------------------------------
(* Request body presence *)

\* The request body of the operation: absent, or the body its slot resolves to
BodyOf(doc) ==
    LET b == TheOperation(doc).request_body
    IN IF b = None THEN None ELSE resolve_request_body(b[1], doc)

\* A message with a colon: one emitted below the body, by the content or the
\* schema comparison
HasColon(s) == \E i \in 1..Len(s) : SubSeq(s, i, i) = ":"

\* The changes about the presence and the required flag of the request body
BodyChanges ==
    Select(result, LAMBDA c : /\ IsSome(StripPrefix(c.message, "request body"))
                              /\ ~HasColon(c.message))

\* C11: with every body that is present resolving, a body absent in old and
\* present in new yields one "request body added", Breaking iff the added body
\* is required; a body present in old only yields one Breaking "request body
\* removed"; a body on both sides yields one Breaking "request body became
\* required" iff old is optional and new is required, and nothing about the
\* body's presence otherwise, the transition required -> optional included.
C11_RequestBodyPresence ==
    (pc = "done" /\ ~DanglingBody(old) /\ ~DanglingBody(new)) =>
        LET o == BodyOf(old)
            n == BodyOf(new)
        IN  /\ (o = None /\ n # None) =>
                BodyChanges = <<Change(IF n[1].required THEN Breaking
                                                        ELSE NonBreaking,
                                       TheLocation, "request body added")>>
            /\ (o # None /\ n = None) =>
                BodyChanges = <<Change(Breaking, TheLocation,
                                       "request body removed")>>
            /\ (o # None /\ n # None) =>
                BodyChanges = IF ~o[1].required /\ n[1].required
                              THEN <<Change(Breaking, TheLocation,
                                            "request body became required")>>
                              ELSE <<>>
            /\ (o = None /\ n = None) => BodyChanges = <<>>

\* An optional inline body became the required component body
C11_Witness ==
    /\ pc = "done"
    /\ TheOperation(old).request_body # None
    /\ TheOperation(old).request_body[1].tag = "Item"
    /\ ~BodyOf(old)[1].required
    /\ TheOperation(new).request_body = Some(Ref("#/components/requestBodies/Body"))
    /\ BodyChanges = <<Change(Breaking, TheLocation, "request body became required")>>

----------------------------------------------------------------------------
(* Responses layer *)

\* The rendering of the status codes of the family
CodeText(code) ==
    CASE code = StatusCode(200) -> "200"
      [] code = StatusCode(404) -> "404"
      [] code = StatusRange(2) -> "2XX"

\* The response of a status code, resolved
ResponseOfCode(doc, code) ==
    resolve_response(Get(TheOperation(doc).responses.responses, code)[1], doc)

\* C12: responses are matched by status-code equality, a numeric code never
\* equal to a class range; a code in old only yields exactly one Breaking
\* "response '<code>' removed", a code in new only exactly one NonBreaking
\* "response '<code>' added", and a code on both sides (both resolving) yields
\* the comparison of the two contents in direction Response.
C12_ResponsesLayer ==
    pc = "done" =>
        \A code \in StatusCodes :
            LET inOld == ContainsKey(TheOperation(old).responses.responses, code)
                inNew == ContainsKey(TheOperation(new).responses.responses, code)
                label == "response '" \o CodeText(code) \o "'"
            IN  /\ (inOld /\ ~inNew) =>
                    StartingWith(label) =
                        <<Change(Breaking, TheLocation, label \o " removed")>>
                /\ (~inOld /\ inNew) =>
                    StartingWith(label) =
                        <<Change(NonBreaking, TheLocation, label \o " added")>>
                /\ (~inOld /\ ~inNew) => StartingWith(label) = <<>>
                /\ (/\ inOld /\ inNew
                    /\ IsSome(ResponseOfCode(old, code))
                    /\ IsSome(ResponseOfCode(new, code))) =>
                    StartingWith(label) =
                        diff_content(TheLocation, label,
                                     ResponseOfCode(old, code)[1].content,
                                     ResponseOfCode(new, code)[1].content,
                                     Response, old, new)

\* The code 200 gave way to the range 2XX: one removal and one addition
C12_Witness ==
    /\ pc = "done"
    /\ Keys(TheOperation(old).responses.responses) = <<StatusCode(200)>>
    /\ Keys(TheOperation(new).responses.responses) = <<StatusRange(2)>>
    /\ StartingWith("response") =
        <<Change(Breaking, TheLocation, "response '200' removed"),
          Change(NonBreaking, TheLocation, "response '2XX' added")>>

----------------------------------------------------------------------------
(* Schema kind change *)

\* The kind of a schema of the kinds family
KindOf(s) == CHOOSE name \in KindNames : s \in KindsOf(name)

\* The kinds below which diff_schema compares nothing
OpaqueKinds ==
    {"number", "integer", "boolean", "any", "oneOf", "allOf", "anyOf", "not"}

\* C13: two media-type schemas (depth 0) of different type names yield exactly
\* one change, Breaking in both directions, "<context>: type changed from
\* <old> to <new>", whatever is nested in either; two schemas of the same
\* name, the kind being number, integer, boolean, any or a composition, yield
\* no change.
C13_SchemaKindChange ==
    pc = "done" =>
        LET o == KindOf(RootRef(old).item)
            n == KindOf(RootRef(new).item)
        IN  /\ o # n =>
                result = <<Change(Breaking, TheLocation,
                                  RootContext(old) \o ": type changed from "
                                      \o o \o " to " \o n)>>
            /\ (o = n /\ o \in OpaqueKinds) => result = <<>>

\* The User object against an array of User, in a request body: one change
C13_Witness ==
    /\ pc = "done"
    /\ DirectionOf(old) = Request
    /\ RootRef(old) = Item(UserSchema)
    /\ RootRef(new) = Item(ArrayType(Some(Ref("#/components/schemas/User"))))
    /\ Len(result) = 1
    /\ result[1].severity = Breaking

----------------------------------------------------------------------------
(* Operation layer *)

\* The place of a change in the output of an operation: 1 parameters,
\* 2 request body, 3 responses, 4 deprecation
Rank(c) ==
    CASE c.message = "operation deprecated" -> 4
      [] IsSome(StripPrefix(c.message, "response '")) -> 3
      [] IsSome(StripPrefix(c.message, "request body")) -> 2
      [] OTHER -> 1

\* C14: for an operation on both sides, exactly one NonBreaking "operation
\* deprecated" is emitted iff old.deprecated is false and new.deprecated is
\* true, none otherwise; and in the output every parameter change precedes
\* every request-body change, which precedes every response change, which
\* precedes the deprecation change.
C14_OperationLayer ==
    pc = "done" =>
        /\ Count("operation deprecated") =
            (IF ~TheOperation(old).deprecated /\ TheOperation(new).deprecated
             THEN 1 ELSE 0)
        /\ AllSeverity("operation deprecated", NonBreaking)
        /\ \A i, j \in DOMAIN result : i < j => Rank(result[i]) <= Rank(result[j])
        /\ \A i \in DOMAIN result : result[i].location = TheLocation

\* A run whose output holds a change of each of the four kinds
C14_Witness ==
    /\ pc = "done"
    /\ ~TheOperation(old).deprecated /\ TheOperation(new).deprecated
    /\ {Rank(result[i]) : i \in DOMAIN result} = {1, 2, 3, 4}
    /\ Len(result) >= 6

----------------------------------------------------------------------------
(* Command line and loader *)

\* A path whose file can be read and whose text the parser chosen by the
\* extension accepts (either parser, for another or no extension)
Loads(path) ==
    /\ fs[path].readable
    /\ CASE path.extension = Some("json") -> fs[path].content.json # None
         [] path.extension \in {Some("yaml"), Some("yml")} ->
                fs[path].content.yaml # None
         [] OTHER -> fs[path].content.json # None \/ fs[path].content.yaml # None

\* C15: the process exits with 2 iff loading either file fails, and then no
\* diff was computed and nothing reported, the new file not even read when the
\* old one fails; otherwise it exits with 1 iff the Diff holds a Breaking
\* change and with 0 iff it holds none.
C15_CliOutcome ==
    pc = "exited" =>
        LET failed == ~Loads(cli.old) \/ ~Loads(cli.new)
        IN  /\ exit_code # None
            /\ exit_code = Some(2) <=> failed
            /\ failed => /\ old = <<>> \/ new = <<>>
                         /\ result = <<>> /\ stdout = <<>>
            /\ ~Loads(cli.old) => reads = <<cli.old>> /\ new = <<>>
            /\ ~failed =>
                /\ result = diff_specs(old, new)
                /\ exit_code = Some(1) <=>
                        \E i \in DOMAIN result : result[i].severity = Breaking
                /\ exit_code = Some(0) <=>
                        \A i \in DOMAIN result : result[i].severity = NonBreaking

\* The process has exited with 0 on a Diff of NonBreaking changes only
C15_Witness ==
    /\ pc = "exited"
    /\ exit_code = Some(0)
    /\ result # <<>>
    /\ reads = <<cli.old, cli.new>>

\* The text of a path as the errors carry it
PathText(path) ==
    CASE path.extension = None -> "spec"
      [] OTHER -> "spec." \o path.extension[1]

\* The parser calls expected of one load_file call on a path
ExpectedParses(path) ==
    LET c == fs[path].content
    IN  CASE ~fs[path].readable -> <<>>
          [] path.extension = Some("json") -> << <<path, "Json">> >>
          [] path.extension \in {Some("yaml"), Some("yml")} -> << <<path, "Yaml">> >>
          [] OTHER -> IF c.json # None
                      THEN << <<path, "Json">> >>
                      ELSE << <<path, "Json">>, <<path, "Yaml">> >>

\* The document expected of a load_file call that succeeds
ExpectedDocument(path) ==
    LET c == fs[path].content
    IN  CASE path.extension = Some("json") -> c.json[1]
          [] path.extension \in {Some("yaml"), Some("yml")} -> c.yaml[1]
          [] OTHER -> IF c.json # None THEN c.json[1] ELSE c.yaml[1]

\* load_file has just returned for the path read last
JustLoaded ==
    /\ reads # <<>>
    /\ \/ pc = "failed"
       \/ pc = "load_new" /\ Len(reads) = 1
       \/ pc = "start" /\ Len(reads) = 2

\* C16: load_file returns LoadError::Io with the path iff the file cannot be
\* read (no parser is called then); otherwise the text is parsed as JSON only
\* for the extension json, as YAML only for yaml and yml, and for any other or
\* no extension as JSON first and as YAML only if JSON failed; the document is
\* returned if the parse chosen (either, for an unknown extension) succeeds,
\* LoadError::Parse with the path otherwise.
C16_LoaderOutcome ==
    JustLoaded =>
        LET path == reads[Len(reads)]
            document == IF Len(reads) = 1 THEN old ELSE new
            before == IF Len(reads) = 1 THEN <<>> ELSE ExpectedParses(reads[1])
        IN  /\ parses = before \o ExpectedParses(path)
            /\ ~fs[path].readable <=>
                    (/\ error # None
                     /\ error[1].tag = "Io"
                     /\ error[1].path = PathText(path))
            /\ (fs[path].readable /\ Loads(path)) =>
                    /\ error = None
                    /\ pc # "failed"
                    /\ document = ExpectedDocument(path)
            /\ (fs[path].readable /\ ~Loads(path)) =>
                    /\ error # None
                    /\ error[1].tag = "Parse"
                    /\ error[1].path = PathText(path)
                    /\ pc = "failed"
                    /\ document = <<>>

\* spec.txt holding block-style YAML was parsed as JSON, then as YAML, and
\* loaded
C16_Witness ==
    /\ pc = "load_new"
    /\ cli.old = Path("spec", Some("txt"))
    /\ parses = << <<cli.old, "Json">>, <<cli.old, "Yaml">> >>
    /\ old \in CliDocs

----------------------------------------------------------------------------
(* Required-set transitions *)

\* The changes of the result with a given message and severity, and no change
\* with that message and the other severity
Emitted(message, sev) ==
    /\ \E i \in DOMAIN result : result[i].message = message
    /\ AllSeverity(message, sev)

\* C17: for two object schemas and a property name P, "property '<P>' became
\* required" (Breaking in Request, NonBreaking in Response) is emitted exactly
\* when P is a property of both schemas, not in old.required and in
\* new.required, and "property '<P>' became optional" (NonBreaking in Request,
\* Breaking in Response) exactly when P is a property of both, in old.required
\* and not in new.required; so a removed or added property gets neither.
C17_RequiredTransitions ==
    (pc = "done" /\ BothRoots("Object")) =>
        \A P \in PropNames :
            LET inBoth == /\ ContainsKey(OldType.properties, P)
                          /\ ContainsKey(NewType.properties, P)
                wasRequired == Contains(OldType.required, P)
                isRequired == Contains(NewType.required, P)
                request == DirectionOf(old) = Request
                required == RootContext(old) \o ": property '" \o P
                                \o "' became required"
                optional == RootContext(old) \o ": property '" \o P
                                \o "' became optional"
            IN  /\ IF inBoth /\ ~wasRequired /\ isRequired
                   THEN Emitted(required, IF request THEN Breaking ELSE NonBreaking)
                   ELSE Count(required) = 0
                /\ IF inBoth /\ wasRequired /\ ~isRequired
                   THEN Emitted(optional, IF request THEN NonBreaking ELSE Breaking)
                   ELSE Count(optional) = 0

\* The part of C17 the code satisfies: the transitions are emitted, with the
\* severities claimed, exactly for a property of old that new.required newly
\* names and for a property of new that old.required alone names.
C17_Supporting ==
    (pc = "done" /\ BothRoots("Object")) =>
        \A P \in PropNames :
            LET wasRequired == Contains(OldType.required, P)
                isRequired == Contains(NewType.required, P)
                request == DirectionOf(old) = Request
                required == RootContext(old) \o ": property '" \o P
                                \o "' became required"
                optional == RootContext(old) \o ": property '" \o P
                                \o "' became optional"
            IN  /\ IF ContainsKey(OldType.properties, P) /\ ~wasRequired /\ isRequired
                   THEN Emitted(required, IF request THEN Breaking ELSE NonBreaking)
                   ELSE Count(required) = 0
                /\ IF ContainsKey(NewType.properties, P) /\ wasRequired /\ ~isRequired
                   THEN Emitted(optional, IF request THEN NonBreaking ELSE Breaking)
                   ELSE Count(optional) = 0

----------------------------------------------------------------------------
(* Depth guard *)

\* The number of levels between a schema slot of the nested family and its
\* leaf, and the leaf
RECURSIVE Levels(_)
Levels(r) ==
    IF r.tag = "Reference" \/ r.item.schema_kind.tag # "Type" THEN 0
    ELSE LET t == r.item.schema_kind.type
         IN  IF t.tag = "Array" THEN 1 + Levels(t.items[1])
             ELSE IF t.tag = "Object" /\ ContainsKey(t.properties, "child")
             THEN 1 + Levels(t.properties[1][2])
             ELSE 0

RECURSIVE Leaf(_)
Leaf(r) ==
    IF r.tag = "Reference" \/ r.item.schema_kind.tag # "Type" THEN r
    ELSE LET t == r.item.schema_kind.type
         IN  IF t.tag = "Array" THEN Leaf(t.items[1])
             ELSE IF t.tag = "Object" /\ ContainsKey(t.properties, "child")
             THEN Leaf(t.properties[1][2])
             ELSE r

\* The context of the leaf: one "[]" per array and one ".child" per object
RECURSIVE LeafContext(_, _)
LeafContext(context, r) ==
    IF r.tag = "Reference" \/ r.item.schema_kind.tag # "Type" THEN context
    ELSE LET t == r.item.schema_kind.type
         IN  IF t.tag = "Array" THEN LeafContext(context \o "[]", t.items[1])
             ELSE IF t.tag = "Object" /\ ContainsKey(t.properties, "child")
             THEN LeafContext(context \o ".child", t.properties[1][2])
             ELSE context

\* The change expected of two leaves compared in a direction
LeafChanges(context, o, n, direction) ==
    CASE o.tag = "Reference" \/ n.tag = "Reference" -> <<>>
      [] o = n -> <<>>
      [] n = Item(StringType(<<>>)) ->
            <<Change(Breaking, TheLocation,
                     context \o ": type changed from integer to string")>>
      [] OTHER ->
            <<Change(IF direction = Response THEN Breaking ELSE NonBreaking,
                     TheLocation, context \o ": property 'id' removed")>>

\* C18: diff_content calls diff_schema at depth 0 and each descent into items
\* or a property adds exactly 1; a call at depth 10 or more returns nothing
\* and calls nothing, so a difference 10 or more levels below the media-type
\* schema is not reported, and the same difference at most 9 levels below is,
\* with the severity of the media type's direction.
C18_DepthGuard ==
    /\ \A i \in DOMAIN stack :
        /\ stack[i].depth = i - 1
        /\ stack[i].depth >= 10 => stack[i].out = <<>> /\ stack[i].todo = <<>>
    /\ pc = "done" =>
        result = IF Levels(RootRef(old)) >= 10 THEN <<>>
                 ELSE LeafChanges(LeafContext(RootContext(old), RootRef(old)),
                                  Leaf(RootRef(old)), Leaf(RootRef(new)),
                                  DirectionOf(old))

\* A property removed 9 levels below the media-type schema of a response has
\* been reported
C18_Witness ==
    /\ pc = "done"
    /\ Levels(RootRef(old)) = 9
    /\ DirectionOf(old) = Response
    /\ Len(result) = 1
    /\ result[1].severity = Breaking
    /\ calls = 10

----------------------------------------------------------------------------
(* Stable order *)

EndsWith(s, suffix) ==
    /\ Len(s) >= Len(suffix)
    /\ SubSeq(s, Len(s) - Len(suffix) + 1, Len(s)) = suffix

\* The place of a change within its layer's output: 1 removed, 2 added,
\* 3 about an element present on both sides
Place(c) ==
    CASE EndsWith(c.message, " removed") -> 1
      [] EndsWith(c.message, " added") -> 2
      [] OTHER -> 3

\* In the output of the parameters layer, removed changes come first, added
\* ones next, changes about parameters on both sides last
RemovedAddedModified ==
    \A i, j \in DOMAIN result : i < j => Place(result[i]) <= Place(result[j])

\* C19: for fixed documents every invocation of diff_specs returns the same
\* sequence of changes, and within the output of a layer (here: parameters)
\* all removed changes precede all added ones, which precede all changes
\* about elements present on both sides.
C19_StableOrder ==
    /\ [][pc = "again" => result' = result]_vars
    /\ [](pc = "done" => RemovedAddedModified)

\* The first half of C19 alone: every invocation returns the same sequence
C19_SameOnEveryInvocation == [][pc = "again" => result' = result]_vars

\* The second half of C19 alone, for the parameters layer
C19_ParametersOrder == pc = "done" => RemovedAddedModified

\* What the code satisfies: every invocation returns the same changes, each
\* as often, in some order
C19_Supporting ==
    [][pc = "again" =>
        \A c \in Range(result) \cup Range(result') :
            Cardinality({i \in DOMAIN result : result[i] = c})
                = Cardinality({i \in DOMAIN result' : result'[i] = c})]_vars

----------------------------------------------------------------------------
(* Work bound *)

RECURSIVE SumSeq(_)
SumSeq(s) == IF s = <<>> THEN 0 ELSE Head(s) + SumSeq(Tail(s))

\* The schema nodes at and below a schema slot: the slot itself, and for an
\* inline object or array the slots of its properties or items
RECURSIVE SchemaNodes(_)
SchemaNodes(r) ==
    IF r.tag = "Reference" \/ r.item.schema_kind.tag # "Type" THEN 1
    ELSE LET t == r.item.schema_kind.type
         IN  IF t.tag = "Object"
             THEN 1 + SumSeq([i \in DOMAIN t.properties |->
                                SchemaNodes(t.properties[i][2])])
             ELSE IF t.tag = "Array" /\ t.items # None
             THEN 1 + SchemaNodes(t.items[1])
             ELSE 1

\* |D|: the schema nodes of a document, its component schemas included
SizeOf(doc) ==
    SchemaNodes(RootRef(doc))
        + SumSeq([i \in DOMAIN doc.components[1].schemas |->
                    SchemaNodes(doc.components[1].schemas[i][2])])

\* A schema slot from which the component Node is reached
ReachesNode(r) ==
    r \in {Ref("#/components/schemas/Node"),
           Item(ArrayType(Some(Ref("#/components/schemas/Node"))))}

\* C20: the number of diff_schema invocations one diff_specs call makes is at
\* most |old| * |new| * MAX_DEPTH, also when a component schema refers back to
\* itself from several properties.
C20_WorkBound == calls <= SizeOf(old) * SizeOf(new) * MAX_DEPTH

\* The part of C20 the code satisfies: the bound holds as long as the two
\* media-type schemas do not both lead into the component with two references
\* back to itself.
C20_Supporting ==
    ~(ReachesNode(RootRef(old)) /\ ReachesNode(RootRef(new))) =>
        calls <= SizeOf(old) * SizeOf(new) * MAX_DEPTH

----------------------------------------------------------------------------
(* No double-reporting *)

\* No element of a list occurs in it twice
NoRepeat(s) == \A i, j \in DOMAIN s : s[i] = s[j] => i = j

\* The positions of the result that repeat an earlier change with the same
\* location and message
Repeats ==
    {j \in DOMAIN result :
        \E i \in 1..(j - 1) :
            /\ result[i].location = result[j].location
            /\ result[i].message = result[j].message}

\* C21: no difference is reported twice: for one pair of compared schemas
\* (one context) and one property name, enum value or parameter key there is
\* at most one change of each kind, so no two changes of a Diff carry the same
\* location and message, also when a required list names a property more
\* than once.
C21_NoDoubleReporting == pc = "done" => Repeats = {}

\* The part of C21 the code satisfies: only "became required" and "became
\* optional" are ever repeated, and only when the required list they are
\* drawn from (new.required, old.required) names a property more than once;
\* removals and additions of properties and of enum values are reported once.
C21_Supporting ==
    pc = "done" =>
        \A j \in Repeats :
            \/ /\ EndsWith(result[j].message, "' became required")
               /\ BothRoots("Object") /\ ~NoRepeat(NewType.required)
            \/ /\ EndsWith(result[j].message, "' became optional")
               /\ BothRoots("Object") /\ ~NoRepeat(OldType.required)

----------------------------------------------------------------------------
(* Reference resolution *)

\* What a slot stands for in a document with the given components: an inline
\* value itself; a reference, the entry it names when the reference is the
\* section's prefix followed by the name of an entry of the components'
\* section and that entry is inline; nothing otherwise
Denotes(r, section, components) ==
    IF r.tag = "Item"
    THEN Some(r.item)
    ELSE IF components = None
    THEN None
    ELSE LET entries == components[1][section]
             named == {i \in DOMAIN entries :
                          /\ r.reference = PrefixOf(section) \o entries[i][1]
                          /\ entries[i][2].tag = "Item"}
         IN IF named = {} THEN None
            ELSE Some(entries[CHOOSE i \in named : TRUE][2].item)

\* What the engine's resolver for the kind of slot returns, called as the
\* layer that owns the slot calls it
Resolve(kind, r, doc) ==
    CASE kind = "parameter"    -> resolve_param(r, doc.components)
      [] kind = "request_body" -> resolve_request_body(r, doc)
      [] kind = "response"     -> resolve_response(r, doc)
      [] kind = "schema"       -> resolve_schema(r, doc.components)
      [] kind = "property"     -> resolve_box_schema(r, doc.components)
      [] kind = "items"        -> resolve_box_schema(r, doc.components)

\* The (kind, slot, components) a document of the family was built from
SlotOf(doc) ==
    CHOOSE t \in {<<k, r, c>> : k \in ResolveKinds,
                                r \in UNION {SlotRefs(x) : x \in ResolveKinds},
                                c \in ComponentsChoices} :
        t[2] \in SlotRefs(t[1]) /\ doc = ResolveDoc(t[1], t[2], t[3])

\* The document with its slot replaced by what it denotes in the document's
\* own components, when it denotes something, and its components dropped
Detached(doc) ==
    LET t == SlotOf(doc)
        x == Denotes(t[2], SectionOf(t[1]), t[3])
    IN ResolveDoc(t[1], IF IsSome(x) THEN Item(x[1]) ELSE t[2], None)

\* C22: every resolver returns an inline value unchanged, the named component
\* for a reference with the exact prefix of its kind to an inline entry of the
\* owning document's components, and nothing otherwise (no components, no such
\* entry, an entry that is itself a reference, another prefix); and the
\* engine resolves old's references in old and new's in new, so that the Diff
\* is that of the two documents with each slot replaced by what it denotes in
\* its own document.
C22_SingleHopPerDocument ==
    /\ \A doc \in {old, new} :
        LET t == SlotOf(doc)
        IN Resolve(t[1], t[2], doc) = Denotes(t[2], SectionOf(t[1]), t[3])
    /\ pc = "done" => result = diff_specs(Detached(old), Detached(new))

\* A run on two documents that hold the same schema reference, which names an
\* integer in old's components and a string in new's: the type change between
\* the two is reported
C22_Witness ==
    /\ pc = "done"
    /\ SlotOf(old)[1] = "schema" /\ SlotOf(new)[1] = "schema"
    /\ SlotOf(old)[2] = Ref("#/components/schemas/T")
    /\ SlotOf(new)[2] = Ref("#/components/schemas/T")
    /\ old.components = Some(ComponentsOf(1))
    /\ new.components = Some(ComponentsOf(2))
    /\ result = <<Change(Breaking, TheLocation,
            "request body application/json: type changed from integer to string")>>

----------------------------------------------------------------------------
(* Location invariant *)

\* The path item a document holds inline under a path template
ItemAt(doc, path) == AndThen(Get(doc.paths.paths, path), AsItem)

\* What the slot m of the path template holds for the two documents' changes:
\* the operation-level change, or the changes of the layers below computed at
\* the operation location (path, uppercase name of the slot)
UnderSlot(path, m) ==
    LET loc == LocationOperation(path, MethodName[m])
        old_op == ItemAt(old, path)[1][m]
        new_op == ItemAt(new, path)[1][m]
    IN  CASE old_op # None /\ new_op = None ->
                <<Change(Breaking, loc, "operation removed")>>
          [] old_op = None /\ new_op # None ->
                <<Change(NonBreaking, loc, "operation added")>>
          [] old_op # None /\ new_op # None ->
                diff_operation(loc, old_op[1], new_op[1], old, new)
          [] OTHER -> <<>>

\* C23: every "endpoint removed" / "endpoint added" change carries the path
\* location of the path template that is in old only / in new only, and every
\* other change carries the operation location made of a path template held
\* inline by both documents and the uppercase name of the method slot under
\* which the difference lies: the changes at (path, METHOD) are exactly those
\* of that slot's two operations.
C23_LocationInvariant ==
    pc = "done" =>
        /\ \A i \in DOMAIN result :
            LET c == result[i]
            IN  IF c.message \in {"endpoint removed", "endpoint added"}
                THEN /\ c.location = LocationPath(c.location.path)
                     /\ ContainsKey(old.paths.paths, c.location.path)
                            = (c.message = "endpoint removed")
                     /\ ContainsKey(new.paths.paths, c.location.path)
                            = (c.message = "endpoint added")
                ELSE \E path \in PathNames, m \in Methods :
                        /\ c.location = LocationOperation(path, MethodName[m])
                        /\ IsSome(ItemAt(old, path)) /\ IsSome(ItemAt(new, path))
        /\ \A path \in PathNames, m \in Methods :
            (IsSome(ItemAt(old, path)) /\ IsSome(ItemAt(new, path))) =>
                AtOperation(path, MethodName[m]) = UnderSlot(path, m)

\* A run where "/b" was removed, and under "/a" the POST operation was added,
\* the GET operation changed in every layer and the TRACE operation changed
\* the other way round
C23_Witness ==
    /\ pc = "done"
    /\ ContainsKey(old.paths.paths, "/b") /\ ~ContainsKey(new.paths.paths, "/b")
    /\ IsSome(ItemAt(old, "/a")) /\ IsSome(ItemAt(new, "/a"))
    /\ ItemAt(old, "/a")[1].get = Some(OpFirst)
    /\ ItemAt(new, "/a")[1].get = Some(OpSecond)
    /\ ItemAt(old, "/a")[1].trace = Some(OpSecond)
    /\ ItemAt(new, "/a")[1].trace = Some(OpFirst)
    /\ ItemAt(old, "/a")[1].post = None
    /\ ItemAt(new, "/a")[1].post = Some(OpPlain)
    /\ Len(AtOperation("/a", "GET")) >= 5
    /\ Len(AtOperation("/a", "TRACE")) >= 4
    /\ Len(result) = Len(AtOperation("/a", "GET")) + Len(AtOperation("/a", "TRACE")) + 2

----------------------------------------------------------------------------
(* Direction asymmetry *)

\* A message holds the text t
Mentions(s, t) ==
    \E i \in 1..(Len(s) - Len(t) + 1) : SubSeq(s, i, i + Len(t) - 1) = t

\* The structural differences whose severity depends on the direction:
\* property removed, property added when new.required names it, property
\* became required, property became optional, enum value added
DirectionSensitive(message) ==
    \/ Mentions(message, ": property '") /\ EndsWith(message, "' removed")
    \/ \E P \in PropNames :
        /\ message = "request body application/json: property '" \o P \o "' added"
        /\ Contains(NewType.required, P)
    \/ EndsWith(message, "' became required")
    \/ EndsWith(message, "' became optional")
    \/ Mentions(message, ": enum value '") /\ EndsWith(message, "' added")

\* The results of the two calls carry the same (location, message) pairs in
\* the same order, their severities differ exactly on the direction-sensitive
\* differences, and a type change or a removed enum value is Breaking in both
Asymmetric(request, response) ==
    /\ Len(request) = Len(response)
    /\ \A i \in DOMAIN request :
        /\ request[i].location = response[i].location
        /\ request[i].message = response[i].message
        /\ (request[i].severity # response[i].severity)
                <=> DirectionSensitive(request[i].message)
        /\ (\/ Mentions(request[i].message, ": type changed from ")
            \/ /\ Mentions(request[i].message, ": enum value '")
               /\ EndsWith(request[i].message, "' removed"))
            => request[i].severity = Breaking /\ response[i].severity = Breaking

\* C24: diff_schema called on the same schemas and context with direction
\* Request and with direction Response returns the same sequence of
\* (location, message) pairs; the severities differ exactly for property
\* removed, property added to new.required, became required, became optional
\* and enum value added; type changed and enum value removed are Breaking in
\* both directions.
C24_DirectionAsymmetry == [][pc = "swap" => Asymmetric(result, result')]_vars

\* The part of C24 the code satisfies: the two calls agree as the claim says
\* whenever their HashSets iterate in the same order.
C24_Supporting ==
    pc = "done" =>
        Asymmetric(diff_schema_in(Request), result)

\* The same pairs, each as often, whatever the order: between the two calls
C24_SamePairs ==
    [][pc = "swap" =>
        \A c \in Range(result) \cup Range(result') :
            Cardinality({i \in DOMAIN result :
                /\ result[i].location = c.location
                /\ result[i].message = c.message})
            = Cardinality({i \in DOMAIN result' :
                /\ result'[i].location = c.location
                /\ result'[i].message = c.message})]_vars

----------------------------------------------------------------------------
(* Views of a Diff *)

\* view is the subsequence of diff at the positions of at, in order
SubsequenceAt(view, diff, at) ==
    /\ at \subseteq DOMAIN diff
    /\ Len(view) = Cardinality(at)
    /\ \A i \in at : view[Cardinality({j \in at : j <= i})] = diff[i]

\* The lines of the standard output that print a change
ChangeLines == SelectSeq(stdout, LAMBDA line : IsSome(StripPrefix(line, "  ")))

\* C25: breaking() and non_breaking() are disjoint order-preserving
\* subsequences of the Diff whose lengths sum to its length, has_breaking()
\* holds iff breaking() is non-empty and is_empty() iff both views are empty;
\* and the process that reports the Diff prints every change exactly once and
\* exits with 1 exactly when it printed a breaking change.
C25_ViewsPartition ==
    pc \in {"done", "exited"} /\ old # <<>> /\ new # <<>> =>
        LET b == breaking(result)
            n == non_breaking(result)
        IN  /\ \E at \in SUBSET DOMAIN result :
                /\ SubsequenceAt(b, result, at)
                /\ SubsequenceAt(n, result, DOMAIN result \ at)
            /\ Len(b) + Len(n) = Len(result)
            /\ has_breaking(result) <=> b # <<>>
            /\ is_empty(result) <=> (b = <<>> /\ n = <<>>)
            /\ pc = "exited" =>
                /\ Len(ChangeLines) = Len(result)
                /\ \A i \in DOMAIN result :
                    LET line == "  " \o display_change(result[i])
                    IN Cardinality({j \in DOMAIN stdout : stdout[j] = line})
                        = Cardinality({j \in DOMAIN result :
                                display_change(result[j]) = display_change(result[i])})
                /\ exit_code = Some(1) <=>
                    \E i \in DOMAIN result :
                        /\ result[i].severity = Breaking
                        /\ \E j \in DOMAIN stdout :
                            stdout[j] = "  " \o display_change(result[i])
                /\ exit_code \in {Some(0), Some(1)}

\* The process has exited with 1 after reporting a Diff whose breaking and
\* non-breaking changes alternate
C25_Witness ==
    /\ pc = "exited"
    /\ exit_code = Some(1)
    /\ Len(result) = 4
    /\ result[1].severity = Breaking /\ result[2].severity = NonBreaking
    /\ result[3].severity = Breaking /\ result[4].severity = NonBreaking
    /\ stdout = <<"Breaking changes (2):", "  /b - endpoint removed",
                  "  GET /a - operation removed", "",
                  "Non-breaking changes (2):", "  /c - endpoint added",
                  "  PUT /a - operation added">>

====
